---------------------------- MODULE Spec2Model ----------------------------
(***************************************************************************)
(* Model of the Lidarr music importer: the status taxonomy and the CSV     *)
(* status column (lib/csv_handler.py) and the monitoring orchestrator      *)
(* (scripts/add_albums_to_lidarr.py) run against a Lidarr library.         *)
(*                                                                         *)
(* Strings are sequences of small numbers: 0 is a blank, 1..3 are the      *)
(* lower-case letters a..c, 11..13 the upper-case letters A..C, 9 stands   *)
(* for a parenthesised "(Deluxe ...)" edition suffix, 7 and 17 for the     *)
(* words "vol." and "Vol.", 8 and 18 for the words "pt." and "Pt.", 5 and  *)
(* 6 are the digits 5 and 6, and 4 is a punctuation mark (apostrophe,      *)
(* hyphen or period).                                                      *)
(***************************************************************************)
EXTENDS Integers, Sequences, FiniteSets, TLC

(***************************************************************************)
(* Bounds of the model.                                                    *)
(***************************************************************************)
NumRows == 2
MaxRuns == 2
MaxFaults == 1
MaxEnvSteps == 1

(***************************************************************************)
(* Text helpers (lib/text_utils.py and the str methods they use).          *)
(***************************************************************************)
RECURSIVE LStrip(_)
LStrip(s) == IF s # <<>> /\ Head(s) = 0 THEN LStrip(Tail(s)) ELSE s

RECURSIVE RStrip(_)
RStrip(s) ==
    IF s # <<>> /\ s[Len(s)] = 0 THEN RStrip(SubSeq(s, 1, Len(s) - 1)) ELSE s

\* str.strip()
Strip(s) == RStrip(LStrip(s))

\* str.lower()
Lower(s) == [i \in DOMAIN s |-> IF s[i] > 10 THEN s[i] - 10 ELSE s[i]]

\* a in b, for strings
IsIn(a, b) ==
    \E i \in 0..(Len(b) - Len(a)) : SubSeq(b, i + 1, i + Len(a)) = a

\* re.sub(r'\s+', ' ', s)
RECURSIVE CollapseSpaces(_)
CollapseSpaces(s) ==
    IF Len(s) < 2 THEN s
    ELSE IF s[1] = 0 /\ s[2] = 0 THEN CollapseSpaces(Tail(s))
    ELSE <<s[1]>> \o CollapseSpaces(Tail(s))

\* strip_album_suffixes: of its patterns the alphabet can spell only the
\* "(Deluxe ...)" one, r'\s*\([Dd]eluxe[^)]*\)\s*$'; each substitution is
\* followed by strip().
strip_album_suffixes(s) ==
    LET t == RStrip(s)
    IN  IF t # <<>> /\ t[Len(t)] = 9
        THEN Strip(SubSeq(t, 1, Len(t) - 1))
        ELSE Strip(s)

\* clean_csv_input(text, is_artist=False)
clean_csv_input(s) == Strip(strip_album_suffixes(CollapseSpaces(Strip(s))))

(***************************************************************************)
(* Status taxonomy (ItemStatus).                                           *)
(***************************************************************************)
SUCCESS == "success"
PENDING_REFRESH == "pending_refresh"
PENDING_IMPORT == "pending_import"
SKIP == "skip"
SKIP_NO_MUSICBRAINZ == "skip_no_musicbrainz"
SKIP_NO_ARTIST_MATCH == "skip_no_artist_match"
SKIP_API_ERROR == "skip_api_error"
SKIP_ARTIST_EXISTS == "skip_artist_exists"
SKIP_ALBUM_MB_NORESULTS == "skip_album_mb_noresults"
ALREADY_MONITORED == "already_monitored"
ERROR_CONNECTION == "error_connection"
ERROR_TIMEOUT == "error_timeout"
ERROR_INVALID_DATA == "error_invalid_data"
ERROR_UNKNOWN == "error_unknown"
DRY_RUN == "dry_run"

ItemStatus ==
    { SUCCESS, PENDING_REFRESH, PENDING_IMPORT, SKIP, SKIP_NO_MUSICBRAINZ,
      SKIP_NO_ARTIST_MATCH, SKIP_API_ERROR, SKIP_ARTIST_EXISTS,
      SKIP_ALBUM_MB_NORESULTS, ALREADY_MONITORED, ERROR_CONNECTION,
      ERROR_TIMEOUT, ERROR_INVALID_DATA, ERROR_UNKNOWN, DRY_RUN }

is_success(status) == status \in {SUCCESS}

is_pending(status) == status \in {PENDING_REFRESH, PENDING_IMPORT}

is_skip_no_api_error(status) ==
    status \in { SKIP, SKIP_NO_MUSICBRAINZ, SKIP_NO_ARTIST_MATCH,
                 SKIP_ARTIST_EXISTS, SKIP_ALBUM_MB_NORESULTS,
                 ALREADY_MONITORED }

is_skip(status) ==
    status \in { SKIP, SKIP_NO_MUSICBRAINZ, SKIP_NO_ARTIST_MATCH,
                 SKIP_API_ERROR, SKIP_ARTIST_EXISTS,
                 SKIP_ALBUM_MB_NORESULTS, ALREADY_MONITORED }

is_error(status) ==
    status \in { ERROR_CONNECTION, ERROR_TIMEOUT, ERROR_INVALID_DATA,
                 ERROR_UNKNOWN }

should_retry(status) == status = "" \/ is_error(status) \/ is_pending(status)

\* Status strings process_artist_album_pair and its helpers return that
\* ItemStatus does not declare.
ERROR_MISSING_MB_IDS == "error_missing_mb_ids"
SUCCESS_ARTIST_ONLY == "success_artist_only"
RACE_CONDITION == "race_condition"

\* Every string that can stand in the status column: the taxonomy, the
\* empty status of an unprocessed row, and the undeclared strings.
StatusColumn == ItemStatus \cup {"", ERROR_MISSING_MB_IDS, SUCCESS_ARTIST_ONLY}


(***************************************************************************)
(* The catalog: two artists (an artist's name, MusicBrainz id and Lidarr   *)
(* id are all its number) and four release groups with their owner and     *)
(* their title in Lidarr.  GET /album?artistId=.. answers in id order.     *)
(***************************************************************************)
Artists == {1, 2}

relArtist == <<1, 1, 1, 2>>

relTitle == << <<11, 2>>, <<11, 2, 0, 9>>, <<13, 0, 2>>, <<11, 2>> >>

Releases == DOMAIN relTitle

AlbumState == {"absent", "unmon", "mon"}

\* The rows a CSV file is drawn from: artist, album as written in the
\* file, mb_artist_id and mb_release_id (0 is the empty string).  A file
\* holds NumRows consecutive rows of the pool; no two rows of a file name
\* the same artist and album.
RowPool ==
    << [artist |-> 1, album |-> <<11, 2, 0, 9>>, mb_artist_id |-> 1, mb_release_id |-> 2],
       [artist |-> 1, album |-> <<0, 11, 2>>,    mb_artist_id |-> 1, mb_release_id |-> 1],
       [artist |-> 1, album |-> <<2, 0, 13>>,    mb_artist_id |-> 1, mb_release_id |-> 0],
       [artist |-> 2, album |-> <<13>>,          mb_artist_id |-> 0, mb_release_id |-> 0],
       [artist |-> 2, album |-> <<11, 2>>,       mb_artist_id |-> 2, mb_release_id |-> 4],
       [artist |-> 1, album |-> <<13, 0, 2>>,    mb_artist_id |-> 1, mb_release_id |-> 3] >>

\* The albums GET /api/v1/album?artistId=a returns, in response order.
ArtistAlbums(a, albums) ==
    SelectSeq([i \in 1..Len(relArtist) |-> i],
              LAMBDA r : relArtist[r] = a /\ albums[r] # "absent")

(***************************************************************************)
(* rapidfuzz: fuzz.token_sort_ratio and process.extract.                   *)
(***************************************************************************)
RECURSIVE LCS(_, _)
LCS(a, b) ==
    IF a = <<>> \/ b = <<>> THEN 0
    ELSE IF Head(a) = Head(b) THEN 1 + LCS(Tail(a), Tail(b))
    ELSE LET x == LCS(Tail(a), b)
             y == LCS(a, Tail(b))
         IN  IF x >= y THEN x ELSE y

\* s.split(): the blank-separated tokens of s
RECURSIVE Tokens(_)
Tokens(s) ==
    LET t == LStrip(s)
    IN  IF t = <<>> THEN <<>>
        ELSE LET n == IF \E i \in DOMAIN t : t[i] = 0
                      THEN (CHOOSE i \in DOMAIN t :
                                t[i] = 0 /\ \A j \in 1..(i - 1) : t[j] # 0) - 1
                      ELSE Len(t)
             IN  <<SubSeq(t, 1, n)>> \o Tokens(SubSeq(t, n + 1, Len(t)))

RECURSIVE SeqLess(_, _)
SeqLess(a, b) ==
    IF b = <<>> THEN FALSE
    ELSE IF a = <<>> THEN TRUE
    ELSE IF Head(a) # Head(b) THEN Head(a) < Head(b)
    ELSE SeqLess(Tail(a), Tail(b))

RECURSIVE InsertSorted(_, _)
InsertSorted(t, ts) ==
    IF ts = <<>> THEN <<t>>
    ELSE IF SeqLess(Head(ts), t) THEN <<Head(ts)>> \o InsertSorted(t, Tail(ts))
    ELSE <<t>> \o ts

RECURSIVE SortTokens(_)
SortTokens(ts) ==
    IF ts = <<>> THEN <<>> ELSE InsertSorted(Head(ts), SortTokens(Tail(ts)))

RECURSIVE Join(_)
Join(ts) ==
    IF ts = <<>> THEN <<>>
    ELSE IF Len(ts) = 1 THEN Head(ts)
    ELSE Head(ts) \o <<0>> \o Join(Tail(ts))

\* fuzz.token_sort_ratio(a, b) >= cutoff, the ratio being
\* 100 * 2 * LCS / (len(a) + len(b)) of the token-sorted strings.
token_sort_ratio_at_least(a, b, cutoff) ==
    LET x == Join(SortTokens(Tokens(a)))
        y == Join(SortTokens(Tokens(b)))
    IN  IF Len(x) + Len(y) = 0 THEN TRUE
        ELSE 200 * LCS(x, y) >= cutoff * (Len(x) + Len(y))

TokenSortScore(a, b) ==
    LET x == Join(SortTokens(Tokens(a)))
        y == Join(SortTokens(Tokens(b)))
    IN  IF Len(x) + Len(y) = 0 THEN 100
        ELSE (200 * LCS(x, y)) \div (Len(x) + Len(y))


(***************************************************************************)
(* Calls on the Lidarr library.  Each operator gives the set of outcomes   *)
(* a helper can have on the library state `albums`: what it returns, the   *)
(* library state it leaves, and fault = 1 when a request failed in         *)
(* transport or was rejected by the service.                               *)
(***************************************************************************)
SetMonitored(albums, rs, flag) ==
    [r \in Releases |->
        IF r \in rs /\ albums[r] # "absent"
        THEN (IF flag THEN "mon" ELSE "unmon")
        ELSE albums[r]]

Range(s) == {s[i] : i \in DOMAIN s}

Prefixes(s) == {SubSeq(s, 1, n) : n \in 0..(Len(s) - 1)}

\* An internal artist id of the library that is not the expected artist's.
OtherArtistId == 9

\* What GET /album/lookup?term=lidarr:<mbid> can say about the artist of
\* the release: artist.id (0 when it is None), artist.artistName and
\* artist.foreignArtistId (0 when it is missing).
LookupAnswers(mbid) ==
    [id : {relArtist[mbid], 0, OtherArtistId},
     name : Artists,
     foreign : Artists \cup {0}]

\* The verification with every mismatch taken as repairable.
verify_album_artist_lenient(ans, a) ==
    IF ans.id = a THEN "verified" ELSE "repair"

\* The verification of the release's artist and its two repair strategies:
\* "verified" when the ids agree, "repair" when the artist is fetched and
\* put into the album data, "fail" when the step returns (False, False).
verify_album_artist(ans, a) ==
    IF ans.id = a THEN "verified"
    ELSE IF ans.id = 0
         THEN (IF ans.name = a THEN "repair" ELSE "fail")
    ELSE IF ans.foreign # 0
         THEN (IF ans.foreign = a THEN "repair" ELSE "fail")
    ELSE "fail"

\* What the log keeps of a lookup answer.
AnswerLog(ans, a) ==
    IF ans.id = a THEN <<>>
    ELSE <<"artist id differs">>
         \o (IF ans.id = 0 /\ ans.name = a
             THEN <<"id missing, names equal">> ELSE <<>>)
         \o (IF ans.foreign = a
             THEN <<"alternate identity equal">> ELSE <<>>)

\* monitor_album_by_mbid(artist_id, musicbrainz_album_id, ...):
\* returns (success, was_already_monitored).
monitor_album_by_mbid(a, mbid, albums) ==
    LET existing_albums == ArtistAlbums(a, albums)
        failed == [ok |-> FALSE, already |-> FALSE, albums |-> albums,
                   fault |-> 1, log |-> <<>>]
        answered(ans, ok, alb, fault, posted) ==
            [ok |-> ok, already |-> FALSE, albums |-> alb, fault |-> fault,
             log |-> AnswerLog(ans, a)
                     \o (IF posted THEN <<"POST album">> ELSE <<>>)]
    IN  {failed}                                   \* GET /album raised
        \cup
        IF mbid \in Range(existing_albums)
        THEN IF albums[mbid] = "mon"
             THEN {[ok |-> TRUE, already |-> TRUE, albums |-> albums,
                    fault |-> 0, log |-> <<>>]}
             ELSE {[ok |-> TRUE, already |-> FALSE,
                    albums |-> SetMonitored(albums, {mbid}, TRUE),
                    fault |-> 0, log |-> <<>>],
                   failed}                         \* PUT raised
        ELSE \* GET /album/lookup?term=lidarr:<mbid>: a failure, no results,
             \* or the release with what the service says of its artist
             {failed,
              [ok |-> FALSE, already |-> FALSE, albums |-> albums,
               fault |-> 0, log |-> <<>>]}
             \cup
             UNION { LET v == verify_album_artist(ans, a)
                     IN  IF v = "fail"
                         THEN {answered(ans, FALSE, albums, 0, FALSE)}
                         ELSE \* POST /album answers 201, or fails or is
                              \* rejected; a repair first needs GET /artist
                              {answered(ans, TRUE,
                                        [albums EXCEPT ![mbid] = "mon"], 0, TRUE),
                               answered(ans, FALSE, albums, 1, TRUE)}
                              \cup
                              (IF v = "repair"
                               THEN {answered(ans, FALSE, albums, 1, FALSE)}
                               ELSE {}) :
                     ans \in LookupAnswers(mbid) }

\* The album monitor_album picks: album_choices is keyed by the cleaned
\* title (a later album of the same cleaned title replaces the earlier),
\* process.extract keeps the keys scoring >= 85 and orders them by score,
\* ties in key order; the first one is taken.  0 when nothing matches.
BestTitleMatch(a, album_title, albums) ==
    LET list == ArtistAlbums(a, albums)
        clean(x) == strip_album_suffixes(Strip(Lower(relTitle[x])))
        query == strip_album_suffixes(Strip(Lower(album_title)))
        first(k) == CHOOSE i \in DOMAIN list :
                        clean(list[i]) = k
                        /\ \A j \in 1..(i - 1) : clean(list[j]) # k
        last(k) == CHOOSE i \in DOMAIN list :
                        clean(list[i]) = k
                        /\ \A j \in (i + 1)..Len(list) : clean(list[j]) # k
        keys == {clean(list[i]) : i \in DOMAIN list}
        hits == {k \in keys : token_sort_ratio_at_least(query, k, 85)}
    IN  IF hits = {} THEN 0
        ELSE LET best == CHOOSE k \in hits :
                     \A h \in hits \ {k} :
                         \/ TokenSortScore(query, k) > TokenSortScore(query, h)
                         \/ /\ TokenSortScore(query, k) = TokenSortScore(query, h)
                            /\ first(k) < first(h)
             IN  list[last(best)]

\* monitor_album(artist_id, album_title, artist_name): returns a bool;
\* refresh tells whether the RefreshArtist command was delivered.
monitor_album(a, album_title, albums) ==
    LET x == BestTitleMatch(a, album_title, albums)
        failed == [ok |-> FALSE, albums |-> albums, fault |-> 1, refresh |-> FALSE]
    IN  {failed}                                   \* GET /album raised
        \cup
        IF x # 0
        THEN IF albums[x] = "mon"
             THEN {[ok |-> TRUE, albums |-> albums, fault |-> 0, refresh |-> FALSE]}
             ELSE {[ok |-> TRUE, albums |-> SetMonitored(albums, {x}, TRUE),
                    fault |-> 0, refresh |-> FALSE],
                   failed}                         \* PUT raised
        ELSE {[ok |-> FALSE, albums |-> albums, fault |-> 0, refresh |-> TRUE],
              failed}                              \* POST /command raised

\* The same pass over the albums of every artist of the library.
unmonitor_all_albums(a, albums) ==
    LET list == SelectSeq([i \in 1..Len(relArtist) |-> i],
                          LAMBDA r : albums[r] # "absent")
        todo == SelectSeq(list, LAMBDA x : albums[x] = "mon")
    IN  {[ok |-> TRUE, albums |-> SetMonitored(albums, Range(todo), FALSE), fault |-> 0],
         [ok |-> FALSE, albums |-> albums, fault |-> 1]}
        \cup
        {[ok |-> FALSE, albums |-> SetMonitored(albums, Range(p), FALSE), fault |-> 1] :
            p \in Prefixes(todo)}

\* unmonitor_all_albums_for_artist(artist_id, artist_name): the albums are
\* unmonitored one PUT at a time; a PUT that raises ends the loop.
unmonitor_all_albums_for_artist(a, albums) ==
    LET list == ArtistAlbums(a, albums)
        todo == SelectSeq(list, LAMBDA x : albums[x] = "mon")
    IN  {[ok |-> TRUE, albums |-> SetMonitored(albums, Range(todo), FALSE), fault |-> 0],
         [ok |-> FALSE, albums |-> albums, fault |-> 1]}
        \cup
        {[ok |-> FALSE, albums |-> SetMonitored(albums, Range(p), FALSE), fault |-> 1] :
            p \in Prefixes(todo)}

\* is_target_by_title of unmonitor_all_except_specific_album
is_target_by_title(album_title, target_album_title) ==
    /\ target_album_title # <<>>
    /\ album_title # <<>>
    /\ LET title_lower == Lower(album_title)
           target_lower == Lower(target_album_title)
       IN  \/ title_lower = target_lower
           \/ IsIn(target_lower, title_lower)
           \/ IsIn(title_lower, target_lower)

\* The loop of unmonitor_all_except_specific_album: the monitored albums
\* it unmonitors, in order; target_found is the loop's flag.
RECURSIVE CleanupLoop(_, _, _, _, _)
CleanupLoop(list, target_found, target_musicbrainz_id, target_album_title, albums) ==
    IF list = <<>> THEN <<>>
    ELSE LET x == Head(list)
             is_target_by_mbid == (x = target_musicbrainz_id)
         IN  IF albums[x] # "mon"
             THEN CleanupLoop(Tail(list), target_found, target_musicbrainz_id,
                              target_album_title, albums)
             ELSE IF \/ is_target_by_mbid
                     \/ (is_target_by_title(relTitle[x], target_album_title)
                         /\ ~target_found)
             THEN CleanupLoop(Tail(list), TRUE, target_musicbrainz_id,
                              target_album_title, albums)
             ELSE <<x>> \o CleanupLoop(Tail(list), target_found,
                                       target_musicbrainz_id,
                                       target_album_title, albums)

\* unmonitor_all_except_specific_album(artist_id, target_musicbrainz_id,
\* artist_name, target_album_title): returns a bool.
unmonitor_all_except_specific_album(a, target_musicbrainz_id, target_album_title, albums) ==
    LET todo == CleanupLoop(ArtistAlbums(a, albums), FALSE, target_musicbrainz_id,
                            target_album_title, albums)
    IN  {[ok |-> TRUE, albums |-> SetMonitored(albums, Range(todo), FALSE), fault |-> 0],
         [ok |-> FALSE, albums |-> albums, fault |-> 1]}
        \cup
        {[ok |-> FALSE, albums |-> SetMonitored(albums, Range(p), FALSE), fault |-> 1] :
            p \in Prefixes(todo)}


(***************************************************************************)
(* CSV file and work queue (CSVHandler).                                   *)
(***************************************************************************)
VARIABLES
    csvRows,            \* the rows of the CSV file, as written in the file
    csvHasStatus,       \* the file has a status column
    args,               \* the command line of the current run
    items,              \* main's list of items, after reading and filtering
    cursor,             \* position of the loop in items (1-based)
    pc,                 \* where the script is
    existing_artists,   \* main's existing_artists dictionary (its artists)
    libArtists,         \* Lidarr: the artists of the library
    libAlbums,          \* Lidarr: each release absent, unmonitored or monitored
    added_artist,       \* the artist add_new_artist_to_lidarr created, or 0
    album_success,      \* album_success of monitor_album_for_new_artist
    ret,                \* the status code process_artist_album_pair returns
    calls,              \* the helpers called and commands sent for this item
    startMon,           \* the item's release was monitored when the item began
    wrote,              \* the script changed the library during this item
    runs,               \* runs of the script started so far
    faults,             \* failed requests so far
    envSteps            \* library changes by Lidarr itself so far

\* One request sent through a retry wrapper (LidarrClient._retry_request,
\* retry_api_call).
VARIABLES
    retry_fn,           \* the wrapper running: "" when none is
    max_retries,        \* self.max_retries / MAX_RETRIES
    retry_delay,        \* self.retry_delay / RETRY_DELAY
    attempts,           \* what each call of func did, in order
    sleeps,             \* every time.sleep of the wrapper, in order
    retry_pc,           \* "try", "returned", "raised", "none"
    raised              \* the exception the wrapper raised, when it did

scriptVars == << csvRows, csvHasStatus, args, items, cursor, pc,
                 existing_artists, libArtists, libAlbums, added_artist,
                 album_success, ret, calls, startMon, wrote, runs, faults,
                 envSteps >>

\* The rate limiter of one MusicBrainzClient.  Times are in ticks.
VARIABLES
    mb_delay,           \* the delay the client was constructed with
    min_delay,          \* self.min_delay
    last_request_time,  \* self.last_request_time
    clock,              \* time.time()
    request_times       \* when each catalog request was issued, in order

\* One call of MusicBrainzClient.search_release_groups, from the filtered
\* candidates of a query on.
VARIABLES
    rg_list,            \* the candidates left by the artist filter
    rg_query,           \* spotify_album_id, release_date, title_variant
    rg_result,          \* the "release-group-list" returned
    rg_pc               \* "select" before the selection, "done" after

\* One call of another method of MusicBrainzClient (_is_artist_match,
\* search_release_groups as a whole, search_artists,
\* _generate_title_variations).
VARIABLES
    fn_name,            \* the method called
    fn_args,            \* its arguments
    fn_requests,        \* the catalog queries it has issued, in order
    fn_result,          \* what it returned
    fn_pc               \* where the call is; "done" once it returned

\* The web UI process (webui/app.py) and its job store on disk.
VARIABLES
    web_up,             \* the web process is running
    resume_done,        \* _resume_done of the running process
    tasks,              \* the in-memory task store, by task id
    jobs,               \* the job files of webui/jobs, by task id
    threads,            \* the worker threads alive, by task id
    processed_files,    \* webui/processed: by output file, the entries enriched in it
    stops,              \* how often the process was stopped
    now                 \* time.time(), in units of seven days

retryVars == << retry_fn, max_retries, retry_delay, attempts, sleeps,
                retry_pc, raised >>

mbVars == << mb_delay, min_delay, last_request_time, clock, request_times >>

rgVars == << rg_list, rg_query, rg_result, rg_pc >>

callVars == << fn_name, fn_args, fn_requests, fn_result, fn_pc >>

webVars == << web_up, resume_done, tasks, jobs, threads, processed_files,
             stops, now >>

clientVars == << retryVars, mbVars, rgVars, callVars, webVars >>

vars == << scriptVars, clientVars >>

\* The value of `raised' while nothing was raised.
NoException == [cls |-> "", status |-> 0, text |-> <<>>]

\* No request is inside a retry wrapper.
RetryIdle ==
    /\ retry_fn = ""
    /\ max_retries = 0
    /\ retry_delay = 0
    /\ attempts = <<>>
    /\ sleeps = <<>>
    /\ retry_pc = ""
    /\ raised = NoException

\* No MusicBrainzClient was constructed.
MbIdle ==
    /\ mb_delay = 0
    /\ min_delay = 0
    /\ last_request_time = 0
    /\ clock = 0
    /\ request_times = <<>>

\* No release-group search is going on.
RgIdle ==
    /\ rg_list = <<>>
    /\ rg_query = [spotify_album_id |-> 0, release_date |-> <<>>,
                   title_variant |-> <<>>]
    /\ rg_result = <<>>
    /\ rg_pc = ""

\* No other method of the client is running.
CallIdle ==
    /\ fn_name = ""
    /\ fn_args = <<>>
    /\ fn_requests = <<>>
    /\ fn_result = <<>>
    /\ fn_pc = ""

\* The web UI is not running and has no job on disk.
WebIdle ==
    /\ web_up = FALSE
    /\ resume_done = FALSE
    /\ tasks = <<>>
    /\ jobs = <<>>
    /\ threads = <<>>
    /\ processed_files = <<>>
    /\ stops = 0
    /\ now = 0

ClientsIdle == RetryIdle /\ MbIdle /\ RgIdle /\ CallIdle /\ WebIdle

\* The command lines modelled: default, --skip-existing,
\* --no-skip-completed and --dry-run.
Modes ==
    { [dry_run |-> FALSE, skip_completed |-> TRUE,  skip_existing |-> FALSE],
      [dry_run |-> FALSE, skip_completed |-> TRUE,  skip_existing |-> TRUE],
      [dry_run |-> FALSE, skip_completed |-> FALSE, skip_existing |-> FALSE],
      [dry_run |-> TRUE,  skip_completed |-> TRUE,  skip_existing |-> FALSE] }

\* CSVHandler.read_items: artist, album and status are stripped, rows
\* lacking artist or album are dropped.
read_items(rows) ==
    LET item(row) == [artist |-> row.artist,
                      album |-> Strip(row.album),
                      status |-> IF csvHasStatus THEN row.status ELSE "",
                      mb_artist_id |-> row.mb_artist_id,
                      mb_release_id |-> row.mb_release_id]
        all == [i \in DOMAIN rows |-> item(rows[i])]
    IN  SelectSeq(all, LAMBDA it : it.album # <<>>)

\* CSVHandler.filter_items_by_status
filter_items_by_status(its, skip_completed, skip_permanent_failures) ==
    SelectSeq(its, LAMBDA it :
        /\ ~(skip_completed /\ is_success(it.status))
        /\ ~(skip_permanent_failures /\ is_skip(it.status)))

\* CSVHandler.update_single_status: the first row whose artist|album equals
\* the key gets the status; without such a row the file is left as it is.
update_single_status(rows, artist, album, status) ==
    LET hits == {i \in DOMAIN rows : rows[i].artist = artist /\ rows[i].album = album}
    IN  IF hits = {} THEN rows
        ELSE LET i == CHOOSE j \in hits : \A k \in hits : j <= k
             IN  [rows EXCEPT ![i].status = status]

\* CSVHandler.update_all_statuses: every row whose artist|album is the key
\* of an item gets that item's status (the last such item's).
update_all_statuses(rows, its) ==
    [i \in DOMAIN rows |->
        LET hits == {k \in DOMAIN its : its[k].artist = rows[i].artist
                                        /\ its[k].album = rows[i].album}
        IN  IF hits = {} THEN rows[i]
            ELSE [rows[i] EXCEPT !.status =
                      its[CHOOSE k \in hits : \A j \in hits : j <= k].status]]

\* find_existing_artist(artist_name, existing_artists): names are compared
\* normalized; no alias is configured.
find_existing_artist(artist, existing) == IF artist \in existing THEN artist ELSE 0

\* The log entry for a monitoring call that returned success.
Monitored(ok) == IF ok THEN <<"monitored">> ELSE <<>>

\* bool(t) of a Python tuple
Truthy(t) == Len(t) > 0

Item == items[cursor]

Running == {"loop", "pair", "existing", "add_artist", "new_unmonitor",
            "new_monitor", "new_finish", "race", "persist"}

CsvFiles ==
    { [k \in 1..NumRows |->
          [artist |-> RowPool[f[k]].artist, album |-> RowPool[f[k]].album,
           status |-> "", mb_artist_id |-> RowPool[f[k]].mb_artist_id,
           mb_release_id |-> RowPool[f[k]].mb_release_id]] :
        f \in { g \in [1..NumRows -> DOMAIN RowPool] :
                    \A i \in 2..NumRows : g[i] = g[i - 1] + 1 } }

Init ==
    /\ csvRows \in CsvFiles
    /\ csvHasStatus = FALSE
    /\ args = [dry_run |-> FALSE, skip_completed |-> TRUE, skip_existing |-> FALSE]
    /\ items = <<>>
    /\ cursor = 1
    /\ pc = "boot"
    /\ existing_artists = {}
    /\ libArtists \in SUBSET Artists
    /\ \E st \in AlbumState :
          libAlbums = [r \in Releases |->
                          IF relArtist[r] \in libArtists THEN st ELSE "absent"]
    /\ added_artist = 0
    /\ album_success = FALSE
    /\ ret = ""
    /\ calls = <<>>
    /\ startMon = FALSE
    /\ wrote = FALSE
    /\ runs = 0
    /\ faults = 0
    /\ envSteps = 0
    /\ ClientsIdle


(***************************************************************************)
(* main(): start of a run, the processing loop, the end of the run.        *)
(***************************************************************************)
ResetItem ==
    /\ added_artist' = 0
    /\ album_success' = FALSE
    /\ ret' = ""
    /\ calls' = <<>>
    /\ startMon' = FALSE
    /\ wrote' = FALSE

\* main() up to the loop: read the CSV, drop completed items when
\* --skip-completed, fetch the artists when --skip-existing.
main_start ==
    /\ pc \in {"boot", "exit"}
    /\ runs < MaxRuns
    /\ runs' = runs + 1
    /\ \E a \in Modes, fetched \in BOOLEAN :
          LET read == read_items(csvRows)
              queue == IF a.skip_completed
                       THEN filter_items_by_status(read, TRUE, TRUE)
                       ELSE read
              fetch == a.skip_existing /\ ~a.dry_run /\ queue # <<>>
          IN  /\ args' = a
              /\ items' = queue
              /\ pc' = IF queue = <<>> THEN "exit" ELSE "loop"
              /\ fetch \/ fetched
              /\ ~fetched => faults < MaxFaults
              /\ faults' = IF fetched THEN faults ELSE faults + 1
              /\ existing_artists' = IF fetch /\ fetched THEN libArtists ELSE {}
    /\ cursor' = 1
    /\ ResetItem
    /\ UNCHANGED << csvRows, csvHasStatus, libArtists, libAlbums, envSteps,
                    clientVars >>

\* The head of the loop body, and what follows the loop.
main_loop ==
    /\ pc = "loop"
    /\ IF cursor > Len(items)
       THEN /\ pc' = "exit"
            /\ IF ~args.dry_run \/ ~csvHasStatus
               THEN /\ csvRows' = update_all_statuses(csvRows, items)
                    /\ csvHasStatus' = TRUE
               ELSE UNCHANGED << csvRows, csvHasStatus >>
            /\ UNCHANGED << items, cursor >>
            /\ ResetItem
       ELSE IF args.dry_run
       THEN /\ items' = [items EXCEPT ![cursor].status = DRY_RUN]
            /\ csvRows' = update_single_status(csvRows, Item.artist, Item.album, DRY_RUN)
            /\ csvHasStatus' = (csvHasStatus \/ csvRows' # csvRows)
            /\ cursor' = cursor + 1
            /\ pc' = "loop"
            /\ ResetItem
       ELSE /\ pc' = "pair"
            /\ startMon' = (Item.mb_release_id # 0
                            /\ libAlbums[Item.mb_release_id] = "mon")
            /\ added_artist' = 0
            /\ album_success' = FALSE
            /\ ret' = ""
            /\ calls' = <<>>
            /\ wrote' = FALSE
            /\ UNCHANGED << csvRows, csvHasStatus, items, cursor >>
    /\ UNCHANGED << args, existing_artists, libArtists, libAlbums, runs,
                    faults, envSteps, clientVars >>

\* item['status'] = status_code, then
\* csv_handler.update_single_status(raw_artist, raw_album, status_code).
main_persist ==
    /\ pc = "persist"
    /\ items' = [items EXCEPT ![cursor].status = ret]
    /\ csvRows' = update_single_status(csvRows, Item.artist, Item.album, ret)
    /\ csvHasStatus' = (csvHasStatus \/ csvRows' # csvRows)
    /\ cursor' = cursor + 1
    /\ pc' = "loop"
    /\ UNCHANGED << args, existing_artists, libArtists, libAlbums, added_artist,
                    album_success, ret, calls, startMon, wrote, runs, faults,
                    envSteps, clientVars >>

\* The run is stopped (the process is killed) anywhere after it began;
\* only the CSV file and the library survive.
Interrupt ==
    /\ pc \in Running
    /\ runs < MaxRuns
    /\ pc' = "boot"
    /\ items' = <<>>
    /\ cursor' = 1
    /\ existing_artists' = {}
    /\ ResetItem
    /\ UNCHANGED << csvRows, csvHasStatus, args, libArtists, libAlbums, runs,
                    faults, envSteps, clientVars >>


(***************************************************************************)
(* process_artist_album_pair and its helpers.  The album title the         *)
(* helpers get is clean_csv_input(raw_album).                              *)
(***************************************************************************)
Album == clean_csv_input(Item.album)

Frame == UNCHANGED << csvRows, csvHasStatus, args, items, cursor,
                      existing_artists, startMon, runs, envSteps, clientVars >>

\* process_artist_album_pair up to its first library call.
process_artist_album_pair ==
    /\ pc = "pair"
    /\ IF Item.mb_artist_id = 0
       THEN /\ ret' = ERROR_MISSING_MB_IDS
            /\ pc' = "persist"
       ELSE IF find_existing_artist(Item.artist, existing_artists) # 0
       THEN IF Item.mb_release_id # 0
            THEN /\ pc' = "existing"
                 /\ ret' = ret
            ELSE /\ ret' = SKIP_ALBUM_MB_NORESULTS
                 /\ pc' = "persist"
       ELSE /\ pc' = "add_artist"
            /\ ret' = ret
    /\ UNCHANGED << libArtists, libAlbums, added_artist, album_success, calls,
                    wrote, faults >>
    /\ Frame

\* handle_existing_artist_album(existing_artist, mb_album_id, artist, album)
handle_existing_artist_album ==
    /\ pc = "existing"
    /\ \E o \in monitor_album_by_mbid(
                    find_existing_artist(Item.artist, existing_artists),
                    Item.mb_release_id, libAlbums) :
          /\ faults + o.fault <= MaxFaults
          /\ faults' = faults + o.fault
          /\ libAlbums' = o.albums
          /\ wrote' = (wrote \/ o.albums # libAlbums)
          /\ ret' = IF o.ok
                    THEN (IF o.already THEN ALREADY_MONITORED ELSE SUCCESS)
                    ELSE PENDING_REFRESH
          /\ calls' = calls \o <<"monitor_album_by_mbid">> \o o.log
                            \o Monitored(o.ok)
    /\ pc' = "persist"
    /\ UNCHANGED << libArtists, added_artist, album_success >>
    /\ Frame

\* The failures of POST /api/v1/artist with the exceptions of the
\* transport left without a status code.
AddArtistFailures_uncaught ==
    { <<"400 bad request", ERROR_INVALID_DATA>>,
      <<"401", SKIP_API_ERROR>>,
      <<"503", ERROR_CONNECTION>>,
      <<"ConnectionError", "">>,
      <<"Timeout", "">>,
      <<"other", "">> }

\* The answers to POST /api/v1/artist that end add_new_artist_to_lidarr in
\* failure, with the status code it returns for each.
AddArtistFailures ==
    { <<"400 bad request", ERROR_INVALID_DATA>>,
      <<"401", SKIP_API_ERROR>>,
      <<"503", ERROR_CONNECTION>>,
      <<"ConnectionError", ERROR_CONNECTION>>,
      <<"Timeout", ERROR_TIMEOUT>>,
      <<"other", ERROR_UNKNOWN>> }

\* What LidarrClient.artist_lookup returns for an artist: the catalog's
\* artist resource, with any of the flags a resource can carry.
LookupItems(a) ==
    [foreignArtistId : {a}, monitor : BOOLEAN,
     addOptions : [searchForMissingAlbums : BOOLEAN]]

build_artist_payload_monitoring(lookup_item) ==
    [lookup_item EXCEPT !.monitor = TRUE,
                        !.addOptions = [searchForMissingAlbums |-> FALSE]]

\* build_artist_payload(lookup_item)
build_artist_payload(lookup_item) ==
    [lookup_item EXCEPT !.monitor = FALSE,
                        !.addOptions = [searchForMissingAlbums |-> FALSE]]

\* The POST /api/v1/artist request as the log of the item shows it.
PostArtistTag(payload) ==
    IF payload.monitor THEN "POST artist, monitor on"
    ELSE IF payload.addOptions.searchForMissingAlbums
    THEN "POST artist, search on"
    ELSE "POST artist"

\* _add_artist of add_new_artist_to_lidarr for the artist a: the requests
\* it can send, over everything the lookup can have returned.
PostArtist(a) ==
    { PostArtistTag(build_artist_payload(l)) : l \in LookupItems(a) }

\* add_new_artist_to_lidarr(artist, mb_artist_id) and what
\* process_artist_album_pair does with its result.
add_new_artist_to_lidarr ==
    /\ pc = "add_artist"
    /\ \/ \* artist_lookup found nothing, or failed and returned None
          /\ \E f \in {0, 1} :
                /\ faults + f <= MaxFaults
                /\ faults' = faults + f
                /\ calls' = calls \o <<"artist_lookup">>
                             \o (IF f = 1 THEN <<"artist_lookup failed">> ELSE <<>>)
          /\ ret' = SKIP_NO_ARTIST_MATCH
          /\ pc' = "persist"
          /\ UNCHANGED << libArtists, added_artist, wrote >>
       \/ \* the artist is in the library: 400 "already been added"
          /\ Item.mb_artist_id \in libArtists
          /\ \E post \in PostArtist(Item.mb_artist_id) :
                calls' = calls \o <<"artist_lookup", post>>
          /\ ret' = RACE_CONDITION
          /\ pc' = "race"
          /\ UNCHANGED << libArtists, added_artist, wrote, faults >>
       \/ \* 201: the artist is created, unmonitored
          /\ Item.mb_artist_id \notin libArtists
          /\ libArtists' = libArtists \cup {Item.mb_artist_id}
          /\ added_artist' = Item.mb_artist_id
          /\ wrote' = TRUE
          /\ \E post \in PostArtist(Item.mb_artist_id) :
                calls' = calls \o <<"artist_lookup", post>>
          /\ IF Item.mb_release_id # 0
             THEN /\ pc' = "new_unmonitor"
                  /\ ret' = ret
             ELSE /\ ret' = SUCCESS_ARTIST_ONLY
                  /\ pc' = "persist"
          /\ UNCHANGED faults
       \/ \* the request fails or is refused
          /\ faults < MaxFaults
          /\ faults' = faults + 1
          /\ \E f \in AddArtistFailures : ret' = f[2]
          /\ \E post \in PostArtist(Item.mb_artist_id) :
                calls' = calls \o <<"artist_lookup", post>>
          /\ pc' = "persist"
          /\ UNCHANGED << libArtists, added_artist, wrote >>
    /\ UNCHANGED << libAlbums, album_success >>
    /\ Frame

\* monitor_album_for_new_artist, first part: unmonitor_all_albums_for_artist
new_unmonitor ==
    /\ pc = "new_unmonitor"
    /\ \E o \in unmonitor_all_albums_for_artist(added_artist, libAlbums) :
          /\ faults + o.fault <= MaxFaults
          /\ faults' = faults + o.fault
          /\ libAlbums' = o.albums
          /\ wrote' = (wrote \/ o.albums # libAlbums)
    /\ calls' = calls \o <<"unmonitor_all_albums_for_artist">>
    /\ pc' = "new_monitor"
    /\ UNCHANGED << libArtists, added_artist, album_success, ret >>
    /\ Frame

\* monitor_album_for_new_artist, second part: monitor_album_by_mbid and,
\* when it did not succeed, monitor_album.
new_monitor ==
    /\ pc = "new_monitor"
    /\ \E o \in monitor_album_by_mbid(added_artist, Item.mb_release_id, libAlbums) :
          IF o.ok
          THEN /\ faults + o.fault <= MaxFaults
               /\ faults' = faults + o.fault
               /\ libAlbums' = o.albums
               /\ wrote' = (wrote \/ o.albums # libAlbums)
               /\ album_success' = TRUE
               /\ calls' = calls \o <<"monitor_album_by_mbid">> \o o.log
                                 \o Monitored(TRUE)
          ELSE \E t \in monitor_album(added_artist, Album, o.albums) :
               /\ faults + o.fault + t.fault <= MaxFaults
               /\ faults' = faults + o.fault + t.fault
               /\ libAlbums' = t.albums
               /\ wrote' = (wrote \/ t.albums # libAlbums)
               /\ album_success' = t.ok
               /\ calls' = calls \o <<"monitor_album_by_mbid">> \o o.log
                                 \o <<"monitor_album">>
                                 \o Monitored(t.ok)
                                 \o (IF t.refresh THEN <<"RefreshArtist">> ELSE <<>>)
    /\ pc' = "new_finish"
    /\ UNCHANGED << libArtists, added_artist, ret >>
    /\ Frame

\* "if mb_album_id:" with the cleanup left out
final_cleanup_never(mb_album_id) == FALSE

\* "if mb_album_id:", the guard of the final cleanup
final_cleanup_wanted(mb_album_id) == mb_album_id # 0

new_artist_status_pending(success) == PENDING_REFRESH

\* The status code monitor_album_for_new_artist returns.
new_artist_status(success) == IF success THEN SUCCESS ELSE PENDING_REFRESH

\* monitor_album_for_new_artist, last part: the final cleanup after a
\* success, the RefreshArtist command otherwise.
new_finish ==
    /\ pc = "new_finish"
    /\ IF album_success
       THEN /\ IF final_cleanup_wanted(Item.mb_release_id)
               THEN \E o \in unmonitor_all_except_specific_album(
                           added_artist, Item.mb_release_id, Album, libAlbums) :
                  /\ faults + o.fault <= MaxFaults
                  /\ faults' = faults + o.fault
                  /\ libAlbums' = o.albums
                  /\ wrote' = (wrote \/ o.albums # libAlbums)
                  /\ calls' = calls \o <<"unmonitor_all_except_specific_album">>
                                    \o (IF o.ok THEN <<"cleanup ok">> ELSE <<>>)
               ELSE UNCHANGED << faults, libAlbums, wrote, calls >>
            /\ ret' = new_artist_status(TRUE)
       ELSE /\ \E sent \in BOOLEAN :
                  /\ ~sent => faults < MaxFaults
                  /\ faults' = IF sent THEN faults ELSE faults + 1
                  /\ calls' = calls \o (IF sent THEN <<"RefreshArtist">> ELSE <<>>)
            /\ ret' = new_artist_status(FALSE)
            /\ UNCHANGED << libAlbums, wrote >>
    /\ pc' = "persist"
    /\ UNCHANGED << libArtists, added_artist, album_success >>
    /\ Frame

\* handle_race_condition with the monitoring step repeated when it failed
race_retry_again(existing_artist, mb_album_id, album, albums) ==
    IF mb_album_id # 0
    THEN { [albums |-> p.albums, fault |-> o.fault + p.fault,
            calls |-> <<"monitor_album_by_mbid">> \o Monitored(o.ok)
                      \o (IF o.ok THEN <<>>
                          ELSE <<"monitor_album_by_mbid">> \o Monitored(p.ok)),
            ret |-> SUCCESS] :
           o \in monitor_album_by_mbid(existing_artist, mb_album_id, albums),
           p \in monitor_album_by_mbid(existing_artist, mb_album_id, albums) }
    ELSE { [albums |-> q.albums, fault |-> t.fault + q.fault,
            calls |-> <<"monitor_album">> \o Monitored(t.ok)
                      \o (IF t.ok THEN <<>>
                          ELSE <<"monitor_album">> \o Monitored(q.ok)),
            ret |-> IF t.ok \/ q.ok THEN SUCCESS ELSE PENDING_REFRESH] :
           t \in monitor_album(existing_artist, album, albums),
           q \in monitor_album(existing_artist, album, albums) }

\* handle_race_condition once the artist is found: the monitoring step and
\* the status it leads to.  "success" is the tuple monitor_album_by_mbid
\* returned, or the bool monitor_album returned.
race_retry(existing_artist, mb_album_id, album, albums) ==
    IF mb_album_id # 0
    THEN { [albums |-> o.albums, fault |-> o.fault,
            calls |-> <<"monitor_album_by_mbid">> \o o.log \o Monitored(o.ok),
            ret |-> IF Truthy(<<o.ok, o.already>>)
                    THEN SUCCESS ELSE PENDING_REFRESH] :
           o \in monitor_album_by_mbid(existing_artist, mb_album_id, albums) }
    ELSE { [albums |-> t.albums, fault |-> t.fault,
            calls |-> <<"monitor_album">> \o Monitored(t.ok)
                      \o (IF t.refresh THEN <<"RefreshArtist">> ELSE <<>>),
            ret |-> IF t.ok THEN SUCCESS ELSE PENDING_REFRESH] :
           t \in monitor_album(existing_artist, album, albums) }

\* handle_race_condition(artist, album, mb_album_id)
handle_race_condition ==
    /\ pc = "race"
    /\ \E fetched \in BOOLEAN :
          LET existing == IF fetched THEN libArtists ELSE {}
              existing_artist == find_existing_artist(Item.artist, existing)
          IN  /\ ~fetched => faults < MaxFaults
              /\ IF existing_artist = 0
                 THEN /\ faults' = IF fetched THEN faults ELSE faults + 1
                      /\ calls' = calls \o <<"get_existing_artists">>
                      /\ ret' = PENDING_REFRESH
                      /\ UNCHANGED << libAlbums, wrote >>
                 ELSE \E o \in race_retry(existing_artist, Item.mb_release_id,
                                          Album, libAlbums) :
                      /\ faults + o.fault <= MaxFaults
                      /\ faults' = faults + o.fault
                      /\ libAlbums' = o.albums
                      /\ wrote' = (wrote \/ o.albums # libAlbums)
                      /\ calls' = calls \o <<"get_existing_artists">> \o o.calls
                      /\ ret' = o.ret
    /\ pc' = "persist"
    /\ UNCHANGED << libArtists, added_artist, album_success >>
    /\ Frame

(***************************************************************************)
(* Lidarr itself: after an artist is in the library its releases appear,   *)
(* monitored or not, when Lidarr refreshes the artist's metadata.          *)
(***************************************************************************)
LidarrRefresh ==
    /\ envSteps < MaxEnvSteps
    /\ envSteps' = envSteps + 1
    /\ pc # "exit"
    /\ \E a \in libArtists, flag \in {"unmon", "mon"} :
          /\ \E r \in Releases : relArtist[r] = a /\ libAlbums[r] = "absent"
          /\ libAlbums' = [r \in Releases |->
                              IF relArtist[r] = a /\ libAlbums[r] = "absent"
                              THEN flag ELSE libAlbums[r]]
    /\ UNCHANGED << csvRows, csvHasStatus, args, items, cursor, pc,
                    existing_artists, libArtists, added_artist, album_success,
                    ret, calls, startMon, wrote, runs, faults, clientVars >>

Next ==
    \/ main_start
    \/ main_loop
    \/ main_persist
    \/ Interrupt
    \/ process_artist_album_pair
    \/ handle_existing_artist_album
    \/ add_new_artist_to_lidarr
    \/ new_unmonitor
    \/ new_monitor
    \/ new_finish
    \/ handle_race_condition
    \/ LidarrRefresh

Spec == Init /\ [][Next]_vars


(***************************************************************************)
(* What the properties below observe.                                      *)
(***************************************************************************)
\* The helper call named tag was made while the current item was processed.
Called(tag) == \E i \in DOMAIN calls : calls[i] = tag

\* How often it was made.
Count(tag) == Cardinality({ i \in DOMAIN calls : calls[i] = tag })

\* Row i of the CSV file is the row item k was read from.
IsRowOf(i, k) ==
    /\ csvRows[i].artist = items[k].artist
    /\ Strip(csvRows[i].album) = items[k].album

\* The releases of artist a, other than release r, that are monitored.
OthersMonitored(a, r, albums) ==
    { x \in Releases \ {r} : relArtist[x] = a /\ albums[x] = "mon" }

(***************************************************************************)
(* C1.  After the loop has handled an item, on every branch, the status    *)
(* the item ended with is in the status column of the item's row: no       *)
(* handled item is left without a persisted status; here for runs that    *)
(* are not dry runs and in which no request has failed.                    *)
(***************************************************************************)
C1_HandledItemHasPersistedStatus ==
    \A k \in DOMAIN items :
        (k < cursor /\ ~args.dry_run /\ faults = 0) =>
            \E i \in DOMAIN csvRows :
                /\ IsRowOf(i, k)
                /\ csvRows[i].status # ""
                /\ csvRows[i].status = items[k].status

(***************************************************************************)
(* C2.  Every status code process_artist_album_pair hands to the loop is   *)
(* one of the fifteen codes of the status taxonomy.                        *)
(***************************************************************************)
C2_ReturnedStatusInTaxonomy ==
    pc = "persist" => ret \in ItemStatus

(***************************************************************************)
(* C3.  An item whose earlier run ended in success or already_monitored    *)
(* is processed again without any change to the library (artists,          *)
(* releases, monitored flags), here even when no request has failed.       *)
(***************************************************************************)
C3_SecondRunLeavesLibraryAlone ==
    ( /\ pc = "persist"
      /\ Item.status \in {SUCCESS, ALREADY_MONITORED}
      /\ faults = 0 )
    => ~wrote

(***************************************************************************)
(* C4.  When the cleanup pass for a monitored target release returns       *)
(* successfully, the target is still monitored and every other release of  *)
(* the artist is unmonitored, whatever the order and the titles of the     *)
(* artist's releases.                                                      *)
(***************************************************************************)
C4_CleanupLeavesOnlyTarget ==
    [][ ( /\ pc = "new_finish"
          /\ "cleanup ok" \in Range(calls')
          /\ libAlbums[Item.mb_release_id] = "mon" )
        => /\ libAlbums'[Item.mb_release_id] = "mon"
           /\ OthersMonitored(added_artist, Item.mb_release_id, libAlbums') = {}
      ]_vars

(***************************************************************************)
(* C5, as stated.  Whenever a monitoring call succeeds for an item, on     *)
(* the existing-artist, new-artist and conflict paths alike, the cleanup   *)
(* pass has run before the status is reported.                             *)
(***************************************************************************)
C5_CleanupAfterEveryMonitoringSuccess ==
    (pc = "persist" /\ Called("monitored"))
    => Called("unmonitor_all_except_specific_album")

(***************************************************************************)
(* C5, amended.  The cleanup pass has run before the status is reported    *)
(* exactly when a monitoring call succeeded for an artist this item has    *)
(* just added; for an artist that was in the library already, conflict     *)
(* path included, it is never run.                                         *)
(***************************************************************************)
C5_CleanupOnlyForNewArtist ==
    pc = "persist" =>
        ( Called("unmonitor_all_except_specific_album")
          <=> (added_artist # 0 /\ Called("monitored")) )

C5_Witness ==
    /\ pc = "persist"
    /\ added_artist # 0
    /\ Called("monitored")
    /\ Called("unmonitor_all_except_specific_album")
    /\ ret = SUCCESS


(***************************************************************************)
(* The start of a run over CSV files that already hold a status column    *)
(* with any status in it: main() up to the processing loop.                *)
(***************************************************************************)
StatusFiles ==
    { [k \in 1..NumRows |-> [f[k] EXCEPT !.status = st[k]]] :
        f \in CsvFiles, st \in [1..NumRows -> StatusColumn] }

InitFilter ==
    /\ csvRows \in StatusFiles
    /\ csvHasStatus = TRUE
    /\ args = [dry_run |-> FALSE, skip_completed |-> TRUE, skip_existing |-> FALSE]
    /\ items = <<>>
    /\ cursor = 1
    /\ pc = "boot"
    /\ existing_artists = {}
    /\ libArtists = Artists
    /\ libAlbums = [r \in Releases |-> "unmon"]
    /\ added_artist = 0
    /\ album_success = FALSE
    /\ ret = ""
    /\ calls = <<>>
    /\ startMon = FALSE
    /\ wrote = FALSE
    /\ runs = 0
    /\ faults = 0
    /\ envSteps = 0
    /\ ClientsIdle

SpecFilter == InitFilter /\ [][main_start]_vars

(***************************************************************************)
(* C6.  With --skip-completed the queue of a run is the file's items       *)
(* without exactly those whose status is of the success class (success,    *)
(* already_monitored) or a permanent skip; every other item is kept, in    *)
(* file order.  An error_timeout item is kept, a skip_api_error item is    *)
(* removed.                                                                *)
(***************************************************************************)
C6_SuccessOrPermanentSkip ==
    {SUCCESS, ALREADY_MONITORED, SKIP, SKIP_NO_MUSICBRAINZ,
     SKIP_NO_ARTIST_MATCH, SKIP_API_ERROR, SKIP_ARTIST_EXISTS,
     SKIP_ALBUM_MB_NORESULTS}

C6_SkipCompletedQueue ==
    (pc \in {"loop", "exit"} /\ args.skip_completed)
    => items = SelectSeq(read_items(csvRows),
                         LAMBDA it : it.status \notin C6_SuccessOrPermanentSkip)

C6_Witness ==
    /\ pc = "loop"
    /\ args.skip_completed
    /\ csvRows[1].status = SKIP_API_ERROR
    /\ csvRows[2].status = ERROR_TIMEOUT
    /\ Len(items) = 1
    /\ items[1].status = ERROR_TIMEOUT

(***************************************************************************)
(* C7.  When a run is interrupted, the status of every item it has         *)
(* completed is already in the status column of the item's row; here for  *)
(* runs that are not dry runs and in which no request has failed.          *)
(***************************************************************************)
C7_CompletedItemsPersistedAtInterrupt ==
    [][ (pc \in Running /\ pc' = "boot" /\ ~args.dry_run /\ faults = 0)
        => \A k \in DOMAIN items :
              k < cursor =>
                  \E i \in DOMAIN csvRows :
                      /\ IsRowOf(i, k)
                      /\ csvRows[i].status = items[k].status
      ]_vars

(***************************************************************************)
(* C8.  An item with a release id whose release was in the library and     *)
(* monitored when its processing began ends in already_monitored, with     *)
(* nothing written, whichever path led to the check of the release; here   *)
(* even when no request has failed.                                        *)
(***************************************************************************)
C8_MonitoredReleaseIsAlreadyMonitored ==
    ( /\ pc = "persist"
      /\ startMon
      /\ Called("monitor_album_by_mbid")
      /\ faults = 0 )
    => (ret = ALREADY_MONITORED /\ ~wrote)

(***************************************************************************)
(* C9, as stated.  After the conflict answer to the artist-creation        *)
(* request there is exactly one re-fetch of the artists and exactly one    *)
(* retry of the monitoring step before the status is reported.             *)
(***************************************************************************)
C9_OneRefetchOneRetry ==
    (pc = "persist" /\ Called("get_existing_artists"))
    => /\ Count("get_existing_artists") = 1
       /\ Count("monitor_album_by_mbid") + Count("monitor_album") = 1

(***************************************************************************)
(* C9, amended.  After the conflict answer there is exactly one re-fetch   *)
(* of the artists and at most one retry of the monitoring step, none when  *)
(* the re-fetched artists do not hold the artist, which is reported as     *)
(* pending_refresh; the status reported is success or pending_refresh and  *)
(* nothing is retried further.                                             *)
(***************************************************************************)
C9_OneRefetchAtMostOneRetry ==
    (pc = "persist" /\ Called("get_existing_artists"))
    => /\ Count("get_existing_artists") = 1
       /\ Count("monitor_album_by_mbid") + Count("monitor_album") <= 1
       /\ Count("monitor_album_by_mbid") + Count("monitor_album") = 0
             => ret = PENDING_REFRESH
       /\ ret \in {SUCCESS, PENDING_REFRESH}

C9_Witness ==
    /\ pc = "persist"
    /\ Called("POST artist")
    /\ Count("get_existing_artists") = 1
    /\ Count("monitor_album_by_mbid") = 1
    /\ Called("monitored")
    /\ ret = SUCCESS

(***************************************************************************)
(* C10.  pending_refresh is reported only after the title search for the   *)
(* release was made, no monitoring call found the release, and a           *)
(* RefreshArtist command was sent; here even when no request has failed.   *)
(***************************************************************************)
C10_PendingRefreshAfterSearchAndRefresh ==
    (pc = "persist" /\ ret = PENDING_REFRESH /\ faults = 0)
    => /\ Called("monitor_album")
       /\ ~Called("monitored")
       /\ Called("RefreshArtist")

(***************************************************************************)
(* C11.  When the release the identity lookup returned has another artist  *)
(* id than expected and neither repair rule applies (id missing with       *)
(* equal names, or equal alternate identity), monitor-by-id fails and no   *)
(* album-creation request is sent.                                         *)
(***************************************************************************)
C11_UnrepairableMismatchFails ==
    ( /\ Called("artist id differs")
      /\ ~Called("id missing, names equal")
      /\ ~Called("alternate identity equal") )
    => /\ ~Called("POST album")
       /\ \A i \in DOMAIN calls :
             (calls[i] = "artist id differs" /\ i < Len(calls))
                 => calls[i + 1] # "monitored"

C11_Witness ==
    /\ pc = "persist"
    /\ Called("artist id differs")
    /\ ~Called("id missing, names equal")
    /\ ~Called("alternate identity equal")
    /\ ~Called("POST album")

(***************************************************************************)
(* C12.  skip_no_artist_match is reported only when the artist lookup was  *)
(* carried out and found no artist; a lookup that failed in transport      *)
(* ends in a retryable error status, never in a permanent skip.            *)
(***************************************************************************)
C12_LookupFailureIsRetryableError ==
    pc = "persist" =>
        /\ ret = SKIP_NO_ARTIST_MATCH
              => (Called("artist_lookup") /\ ~Called("artist_lookup failed"))
        /\ Called("artist_lookup failed") => is_error(ret)

(***************************************************************************)
(* C13.  A request to the library that fails while an item is processed    *)
(* is turned into a status of that item: the item always reaches the       *)
(* persist step with a status, the loop then moves to the next item of     *)
(* the queue, and the run ends only after every item of the queue has      *)
(* been handled and given a status.                                        *)
(***************************************************************************)
C13_FailuresBecomeStatusesAndLoopGoesOn ==
    /\ [](pc = "persist" => ret # "")
    /\ [](pc = "exit" => /\ cursor = Len(items) + 1
                         /\ \A k \in DOMAIN items : items[k].status # "")
    /\ [][ (pc = "persist" /\ pc' = "loop")
           => /\ cursor' = cursor + 1
              /\ items' = [items EXCEPT ![cursor].status = ret] ]_vars
    /\ [][ pc' = "exit" => pc \in {"boot", "exit", "loop"} ]_vars

C13_Witness ==
    /\ pc = "exit"
    /\ ~args.dry_run
    /\ ~args.skip_existing
    /\ runs = 1
    /\ faults = 1
    /\ Len(items) = NumRows
    /\ items[1].status = ERROR_TIMEOUT
    /\ items[2].status # ""



(***************************************************************************)
(* The retry wrappers: LidarrClient._retry_request (around the artist      *)
(* lookups) and retry_api_call (around _add_artist).  An exception is its  *)
(* class, the HTTP status behind it (0 when no response came) and the      *)
(* text str(e) gives, a sequence of pieces; an occurrence of "503" or of   *)
(* "Service Unavailable" in the text is a piece of its own, so that        *)
(* Python's `in' on the text is membership of the piece.                   *)
(***************************************************************************)
MaxRetries == 3

RetryDelays == {1, 2}

API_ERROR_DELAY == 5

\* The request line of an artist lookup, "…/artist/lookup?term=mbid:<id>",
\* for an id without and with the digits 503, and of POST /artist.
LookupUrls == { <<"/api/v1/artist/lookup?term=mbid:", "0a1f">>,
                <<"/api/v1/artist/lookup?term=mbid:d", "503", "5f01">> }

ArtistUrl == <<"/api/v1/artist">>

Reason(status) ==
    CASE status = 503 -> "Service Unavailable"
      [] status = 404 -> "Not Found"
      [] OTHER        -> "Internal Server Error"

\* r.raise_for_status(): "<status> <kind> Error: <reason> for url: <url>".
HTTPError(status, url) ==
    [cls |-> "HTTPError", status |-> status,
     text |-> << ToString(status), "Error:", Reason(status), "for url:" >> \o url]

\* requests.get with no server behind the address.
ConnectionError(url) ==
    [cls |-> "ConnectionError", status |-> 0,
     text |-> << "Max retries exceeded with url:" >> \o url
              \o << "Connection refused" >>]

Timeout ==
    [cls |-> "Timeout", status |-> 0, text |-> << "Read timed out." >>]

\* _add_artist: raise ValueError(...) for the statuses 400, 401 and 503.
ValueError(status) ==
    [cls |-> "ValueError", status |-> status,
     text |-> << CASE status = 400 -> "Bad request (invalid artist data):"
                   [] status = 401 -> "Unauthorized (check API key):"
                   [] OTHER -> "Service temporarily unavailable:" >>]

Returned == [cls |-> "returned", status |-> 200, text |-> <<>>]

\* What one call of func can do: _lookup_by_mbid / _lookup_by_name under
\* _retry_request, _add_artist under retry_api_call.
FuncOutcomes(fn) ==
    IF fn = "_retry_request"
    THEN {Returned, Timeout}
           \cup {HTTPError(st, u) : st \in {404, 503}, u \in LookupUrls}
           \cup {ConnectionError(u) : u \in LookupUrls}
    ELSE {Returned, Timeout, HTTPError(500, ArtistUrl),
          ConnectionError(ArtistUrl)}
           \cup {ValueError(st) : st \in {400, 401, 503}}

\* except requests.exceptions.RequestException
IsRequestException(e) == e.cls \in {"HTTPError", "ConnectionError", "Timeout"}

\* "503" in str(e) or "Service Unavailable" in str(e)
is_service_unavailable(e) ==
    \E i \in DOMAIN e.text : e.text[i] \in {"503", "Service Unavailable"}

backoff_constant(delay, attempt) == delay

\* wait_time = retry_delay * (2 ** attempt)
backoff(delay, attempt) == delay * (2 ^ attempt)

\* One pass of `for attempt in range(max_retries)': the call of func and
\* the except clause.
retry_attempt ==
    /\ retry_pc = "try"
    /\ Len(attempts) < max_retries
    /\ LET attempt == Len(attempts) IN
       \E e \in FuncOutcomes(retry_fn) :
          /\ attempts' = Append(attempts, e)
          /\ IF e = Returned
             THEN /\ retry_pc' = "returned"
                  /\ UNCHANGED << sleeps, raised >>
             ELSE IF ~IsRequestException(e)
             THEN /\ retry_pc' = "raised"
                  /\ raised' = e
                  /\ UNCHANGED sleeps
             ELSE IF is_service_unavailable(e) /\ attempt < max_retries - 1
             THEN /\ sleeps' = Append(sleeps,
                        [after |-> attempt, why |-> "backoff",
                         wait |-> backoff(retry_delay, attempt)])
                  /\ retry_pc' = "try"
                  /\ UNCHANGED raised
             ELSE /\ sleeps' =
                        IF retry_fn = "retry_api_call"
                           /\ attempt >= max_retries - 1
                        THEN Append(sleeps,
                                [after |-> attempt, why |-> "api_error_delay",
                                 wait |-> API_ERROR_DELAY])
                        ELSE sleeps
                  /\ retry_pc' = "raised"
                  /\ raised' = e
    /\ UNCHANGED << retry_fn, max_retries, retry_delay, scriptVars, mbVars,
                    rgVars, callVars, webVars >>

\* The statement after the loop: raise Exception("Max retries exceeded")
\* in _retry_request, return None in retry_api_call.
retry_exhausted ==
    /\ retry_pc = "try"
    /\ Len(attempts) >= max_retries
    /\ IF retry_fn = "_retry_request"
       THEN /\ retry_pc' = "raised"
            /\ raised' = [cls |-> "Exception", status |-> 0,
                          text |-> << "Max retries exceeded" >>]
       ELSE /\ retry_pc' = "none"
            /\ UNCHANGED raised
    /\ UNCHANGED << retry_fn, max_retries, retry_delay, attempts, sleeps,
                    scriptVars, mbVars, rgVars, callVars, webVars >>

\* The script is not running.
ScriptIdle ==
    /\ csvRows = <<>>
    /\ csvHasStatus = FALSE
    /\ args = [dry_run |-> FALSE, skip_completed |-> TRUE, skip_existing |-> FALSE]
    /\ items = <<>>
    /\ cursor = 1
    /\ pc = "exit"
    /\ existing_artists = {}
    /\ libArtists = {}
    /\ libAlbums = [r \in Releases |-> "absent"]
    /\ added_artist = 0
    /\ album_success = FALSE
    /\ ret = ""
    /\ calls = <<>>
    /\ startMon = FALSE
    /\ wrote = FALSE
    /\ runs = 0
    /\ faults = 0
    /\ envSteps = 0

InitRetry ==
    /\ ScriptIdle
    /\ MbIdle
    /\ RgIdle
    /\ CallIdle
    /\ WebIdle
    /\ retry_fn \in {"_retry_request", "retry_api_call"}
    /\ max_retries \in 0..MaxRetries
    /\ retry_delay \in RetryDelays
    /\ attempts = <<>>
    /\ sleeps = <<>>
    /\ retry_pc = "try"
    /\ raised = NoException

NextRetry == retry_attempt \/ retry_exhausted

SpecRetry == InitRetry /\ [][NextRetry]_vars

\* C14: a request is called again only after a failure that is the
\* service-unavailable condition (HTTP status 503): every attempt that is
\* followed by another one failed with status 503, and every failure of
\* another kind is the last attempt and is the exception raised.
C14_RetryOnlyOnServiceUnavailable ==
    \A i \in DOMAIN attempts :
        /\ i < Len(attempts) => attempts[i].status = 503
        /\ (attempts[i] # Returned /\ attempts[i].status # 503
                /\ retry_pc # "try")
              => (i = Len(attempts) /\ retry_pc = "raised"
                    /\ raised = attempts[i])



\* The waits of the wrapper that precede a re-attempt.
BackoffSleeps == { j \in DOMAIN sleeps : sleeps[j].why = "backoff" }

TicksPerUnit == 2

\* Delays a client is constructed with: 0.5, 1.0 and 2.0 units.
Delays == {1, 2, 4}

\* time.time() when the client is constructed: far from 0.0, the initial
\* last_request_time.
StartTimes == {6, 7}

MaxClock == 16

MaxRequests == 3

Max(a, b) == IF a >= b THEN a ELSE b

min_delay_as_given(delay) == delay

\* self.min_delay = max(delay, 1.0)
min_delay_of(delay) == Max(delay, TicksPerUnit)

\* _make_request: _wait_for_rate_limit(), then session.get.  time.sleep
\* returns after wait_time or later; the request is issued when
\* last_request_time is stamped.
make_request ==
    /\ min_delay > 0
    /\ Len(request_times) < MaxRequests
    /\ LET current_time == clock
           time_since_last == current_time - last_request_time
           wait_time == min_delay - time_since_last
       IN  /\ IF time_since_last < min_delay
              THEN \E late \in 0..1 : clock' = current_time + wait_time + late
              ELSE clock' = current_time
           /\ clock' <= MaxClock
    /\ last_request_time' = clock'
    /\ request_times' = Append(request_times, clock')
    /\ UNCHANGED << mb_delay, min_delay, scriptVars, retryVars, rgVars,
                    callVars, webVars >>

\* Time goes by between two requests: the answer comes back, the caller
\* works on it.
TimePasses ==
    /\ min_delay > 0
    /\ \E d \in 1..3 : clock' = clock + d
    /\ clock' <= MaxClock
    /\ UNCHANGED << mb_delay, min_delay, last_request_time, request_times,
                    scriptVars, retryVars, rgVars, callVars, webVars >>

InitMb ==
    /\ ScriptIdle
    /\ RetryIdle
    /\ RgIdle
    /\ CallIdle
    /\ WebIdle
    /\ mb_delay \in Delays
    /\ min_delay = min_delay_of(mb_delay)
    /\ last_request_time = 0
    /\ clock \in StartTimes
    /\ request_times = <<>>

NextMb == make_request \/ TimePasses

SpecMb == InitMb /\ [][NextMb]_vars

\* C16: whatever delay the client was given, also one below 1 unit, two
\* consecutive catalog requests of the client are at least max(delay, 1
\* unit) apart, and the interval the client enforces is never below 1 unit
\* and never below the configured delay.
C16_CatalogRequestsSpaced ==
    /\ min_delay >= TicksPerUnit
    /\ min_delay >= mb_delay
    /\ \A i \in DOMAIN request_times :
          i > 1 => request_times[i] - request_times[i - 1]
                      >= Max(mb_delay, TicksPerUnit)

\* A client built with half a unit: its second request was made to wait
\* and came exactly one unit after the first.
C16_Witness ==
    /\ mb_delay < TicksPerUnit
    /\ Len(request_times) >= 2
    /\ request_times[2] - request_times[1] = TicksPerUnit
    /\ clock = request_times[2]



\* The entries of an item's log that are a request to monitor a release,
\* or the helper that sends one.
MonitoringTags ==
    {"monitor_album_by_mbid", "monitor_album", "POST album", "monitored"}

Targeted ==
    IF Item.mb_release_id # 0 THEN Item.mb_release_id
    ELSE BestTitleMatch(Item.artist, Album, libAlbums)

\* The steps of monitor_album_for_new_artist that unmonitor the artist's
\* other releases: unmonitor_all_albums_for_artist and
\* unmonitor_all_except_specific_album.
InSiblingCleanup == pc \in {"new_unmonitor", "new_finish"}

\* C18: a step the script takes for an item leaves every release of
\* another artist as it was, and changes a release of the item's artist
\* other than the targeted one only in a step of the sibling cleanup,
\* which unmonitors it.
C18_OnlyTargetAndCleanupChangeReleases ==
    [][ (envSteps' = envSteps /\ cursor \in DOMAIN items) =>
          \A r \in Releases :
             libAlbums'[r] # libAlbums[r] =>
                /\ relArtist[r] = Item.artist
                /\ r # Targeted =>
                      (InSiblingCleanup /\ libAlbums[r] = "mon"
                         /\ libAlbums'[r] = "unmon")
      ]_vars



\* Position of the first entry `tag' in the item's log, 0 when absent.
FirstCall(tag) ==
    IF Called(tag)
    THEN CHOOSE i \in DOMAIN calls :
            calls[i] = tag /\ \A j \in 1..(i - 1) : calls[j] # tag
    ELSE 0

\* The item has both identities, its artist was not in the library and
\* was created for it, no request has failed, and the library answered
\* every lookup with what was asked for: the release was monitored by its
\* id, without the title fallback.
C19_NewArtistAllCallsSucceed ==
    /\ pc = "persist"
    /\ Item.mb_artist_id # 0
    /\ Item.mb_release_id # 0
    /\ added_artist # 0
    /\ faults = 0
    /\ Called("monitor_album_by_mbid")
    /\ ~Called("monitor_album")

\* C19: for an item with artist and release ids whose artist is not in
\* the library and whose library calls all succeed, the script has sent
\* POST /artist, then monitored the release by its id, then run the
\* cleanup of the sibling releases, in this order, and returns "success".
C19_AddThenMonitorThenCleanup ==
    C19_NewArtistAllCallsSucceed =>
        /\ ret = SUCCESS
        /\ Called("POST artist")
        /\ Called("monitored")
        /\ Called("cleanup ok")
        /\ FirstCall("POST artist") < FirstCall("monitor_album_by_mbid")
        /\ FirstCall("monitor_album_by_mbid") < FirstCall("monitored")
        /\ FirstCall("monitored") < FirstCall("unmonitor_all_except_specific_album")
        /\ Count("POST artist") = 1
        /\ Count("unmonitor_all_except_specific_album") = 1

\* Such an item whose release came into the library by POST /album and
\* whose siblings the library had listed as monitored.
C19_Witness ==
    /\ C19_NewArtistAllCallsSucceed
    /\ ret = SUCCESS
    /\ Called("cleanup ok")
    /\ libAlbums[Item.mb_release_id] = "mon"
    /\ envSteps = 1



(***************************************************************************)
(* MusicBrainzClient.search_release_groups: what it returns once a query   *)
(* has left a non-empty list of candidates after the artist filter.  A     *)
(* candidate is its title, its ext:score, the URLs of its relations (a     *)
(* URL is the number of the Spotify album it points to, 0 an empty one)    *)
(* and its first release date; a date is its year followed by the rest,    *)
(* <<>> when there is none.                                                *)
(***************************************************************************)
MaxCandidates == 2

RgTitles ==
    { <<11, 2>>, <<11, 2, 0, 9>>, <<11, 2, 0, 17, 0, 5>>, <<11, 2, 0, 17, 0, 6>>,
      <<11, 2, 0, 17, 0, 5, 0, 9>>, <<11, 2, 0, 18, 0, 6>> }

RgCandidates ==
    [title : RgTitles, score : {50, 90}, urls : { <<0, 2>>, <<2, 1>> },
     first_release_date : { <<>>, <<1, 5>>, <<2>> }]

RgQueries ==
    [spotify_album_id : {0, 1}, release_date : { <<>>, <<0, 1, 7>> },
     title_variant : { <<1, 2>>, <<11, 2, 0, 17, 0, 5>>, <<11, 2, 0, 18, 0, 5>> }]

Digits == {5, 6}

\* re.search(r"\bvol(?:\.|ume)?\s*#?:?\s*(\d+)\b", s, re.IGNORECASE): the
\* number of the first match, 0 when there is none.
VolumeOf(s) ==
    LET l == Lower(s)
        number(i) == { j \in (i + 1)..Len(l) :
                          l[j] \in Digits /\ \A k \in (i + 1)..(j - 1) : l[k] = 0 }
        hits == { i \in DOMAIN l :
                     l[i] = 7 /\ (i = 1 \/ l[i - 1] = 0) /\ number(i) # {} }
    IN  IF hits = {} THEN 0
        ELSE LET i == CHOOSE h \in hits : \A g \in hits : h <= g
             IN  l[CHOOSE j \in number(i) : TRUE]

\* normalize_album_title_for_matching: lower, strip, one edition suffix
\* (" (deluxe)") removed.
normalize_album_title_for_matching(title) ==
    LET n == Strip(Lower(title))
    IN  IF Len(n) >= 2 /\ n[Len(n)] = 9 /\ n[Len(n) - 1] = 0
        THEN Strip(SubSeq(n, 1, Len(n) - 2))
        ELSE n

RECURSIVE SortedTokens(_)
SortedTokens(S) ==
    IF S = {} THEN <<>>
    ELSE LET m == CHOOSE x \in S : \A y \in S \ {x} : SeqLess(x, y)
         IN  <<m>> \o SortedTokens(S \ {m})

\* A ratio of rapidfuzz as the fraction n / d of 100.
FracLess(x, y) == x.n * y.d < y.n * x.d

FracMax(x, y) == IF FracLess(x, y) THEN y ELSE x

\* fuzz.token_set_ratio(a, b)
token_set_ratio(a, b) ==
    LET A == Range(Tokens(a))
        B == Range(Tokens(b))
        sect == Join(SortedTokens(A \cap B))
        diff_ab == Join(SortedTokens(A \ B))
        diff_ba == Join(SortedTokens(B \ A))
        sect_len == Len(sect)
        sep == IF sect_len > 0 THEN 1 ELSE 0
        sect_ab_len == sect_len + sep + Len(diff_ab)
        sect_ba_len == sect_len + sep + Len(diff_ba)
        dist == Len(diff_ab) + Len(diff_ba) - 2 * LCS(diff_ab, diff_ba)
        result == [n |-> sect_ab_len + sect_ba_len - dist,
                   d |-> sect_ab_len + sect_ba_len]
        sect_ab == [n |-> sect_len + sect_ab_len - (sep + Len(diff_ab)),
                    d |-> sect_len + sect_ab_len]
        sect_ba == [n |-> sect_len + sect_ba_len - (sep + Len(diff_ba)),
                    d |-> sect_len + sect_ba_len]
    IN  IF A = {} \/ B = {} THEN [n |-> 0, d |-> 1]
        ELSE IF A \cap B # {} /\ (A \ B = {} \/ B \ A = {}) THEN [n |-> 1, d |-> 1]
        ELSE IF sect_len = 0 THEN result
        ELSE FracMax(result, FracMax(sect_ab, sect_ba))

\* list.sort(key=lambda r: int(r.get('ext:score') or 0), reverse=True):
\* stable, equal scores stay in their order.
RECURSIVE InsertByScore(_, _)
InsertByScore(x, sorted) ==
    IF sorted = <<>> THEN <<x>>
    ELSE IF Head(sorted).score >= x.score
    THEN <<Head(sorted)>> \o InsertByScore(x, Tail(sorted))
    ELSE <<x>> \o sorted

RECURSIVE SortByScore(_)
SortByScore(list) ==
    IF list = <<>> THEN <<>>
    ELSE InsertByScore(list[Len(list)],
                       SortByScore(SubSeq(list, 1, Len(list) - 1)))

\* scored.sort(key=lambda t: (t[0], t[1]), reverse=True)
SimKeyGeq(title_variant, x, y) ==
    LET sx == token_set_ratio(normalize_album_title_for_matching(title_variant),
                              normalize_album_title_for_matching(x.title))
        sy == token_set_ratio(normalize_album_title_for_matching(title_variant),
                              normalize_album_title_for_matching(y.title))
    IN  \/ FracLess(sy, sx)
        \/ (~FracLess(sx, sy) /\ x.score >= y.score)

RECURSIVE InsertBySimilarity(_, _, _)
InsertBySimilarity(title_variant, x, sorted) ==
    IF sorted = <<>> THEN <<x>>
    ELSE IF SimKeyGeq(title_variant, Head(sorted), x)
    THEN <<Head(sorted)>> \o InsertBySimilarity(title_variant, x, Tail(sorted))
    ELSE <<x>> \o sorted

RECURSIVE SortBySimilarity(_, _)
SortBySimilarity(title_variant, list) ==
    IF list = <<>> THEN <<>>
    ELSE InsertBySimilarity(title_variant, list[Len(list)],
             SortBySimilarity(title_variant, SubSeq(list, 1, Len(list) - 1)))

\* The candidates with a URL naming the Spotify album.
spotify_matches(list, spotify_album_id) ==
    SelectSeq(list, LAMBDA rg :
        \E i \in DOMAIN rg.urls :
            rg.urls[i] # 0 /\ rg.urls[i] = spotify_album_id)

\* req_year = release_date.strip()[:4]; fr and fr.startswith(req_year)
year_match(list, release_date) ==
    LET st == Strip(release_date)
        req_year == SubSeq(st, 1, IF Len(st) >= 1 THEN 1 ELSE 0)
    IN  SelectSeq(list, LAMBDA rg :
            /\ rg.first_release_date # <<>>
            /\ Len(rg.first_release_date) >= Len(req_year)
            /\ SubSeq(rg.first_release_date, 1, Len(req_year)) = req_year)

exact_matches(list, title_variant) ==
    SelectSeq(list, LAMBDA rg :
        Lower(Strip(rg.title)) = Lower(Strip(title_variant)))

vol_matches_all(list, wanted_vol) == list

\* The candidates whose title carries the wanted volume number.
vol_matches(list, wanted_vol) ==
    SelectSeq(list, LAMBDA rg : VolumeOf(rg.title) = wanted_vol)

\* The selection with the exact-title step left out.
select_without_exact_title(list, spotify_album_id, release_date, title_variant) ==
    IF spotify_album_id # 0 /\ spotify_matches(list, spotify_album_id) # <<>>
    THEN spotify_matches(list, spotify_album_id)
    ELSE IF release_date # <<>> /\ year_match(list, release_date) # <<>>
    THEN SortByScore(year_match(list, release_date))
    ELSE IF VolumeOf(title_variant) # 0
    THEN SortByScore(vol_matches(list, VolumeOf(title_variant)))
    ELSE SortBySimilarity(title_variant, list)

\* search_release_groups from "if rg_list:" on: the list it returns.
select_release_groups(list, spotify_album_id, release_date, title_variant) ==
    IF spotify_album_id # 0 /\ spotify_matches(list, spotify_album_id) # <<>>
    THEN spotify_matches(list, spotify_album_id)
    ELSE IF release_date # <<>> /\ year_match(list, release_date) # <<>>
    THEN SortByScore(year_match(list, release_date))
    ELSE IF exact_matches(list, title_variant) # <<>>
    THEN SortByScore(exact_matches(list, title_variant))
    ELSE IF VolumeOf(title_variant) # 0
    THEN SortByScore(vol_matches(list, VolumeOf(title_variant)))
    ELSE SortBySimilarity(title_variant, list)

search_release_groups ==
    /\ rg_pc = "select"
    /\ rg_result' = select_release_groups(rg_list, rg_query.spotify_album_id,
                        rg_query.release_date, rg_query.title_variant)
    /\ rg_pc' = "done"
    /\ UNCHANGED << rg_list, rg_query, scriptVars, retryVars, mbVars,
                    callVars, webVars >>

InitRg ==
    /\ ScriptIdle
    /\ RetryIdle
    /\ MbIdle
    /\ CallIdle
    /\ WebIdle
    /\ rg_list \in UNION { [1..n -> RgCandidates] : n \in 1..MaxCandidates }
    /\ rg_query \in RgQueries
    /\ rg_result = <<>>
    /\ rg_pc = "select"

SpecRg == InitRg /\ [][search_release_groups]_vars

\* The candidates each tie-break rule prefers, as positions in rg_list.
ByExternalId ==
    { i \in DOMAIN rg_list :
        /\ rg_query.spotify_album_id # 0
        /\ rg_query.spotify_album_id \in Range(rg_list[i].urls) }

ByYear ==
    { i \in DOMAIN rg_list :
        /\ rg_query.release_date # <<>>
        /\ rg_list[i].first_release_date # <<>>
        /\ Head(rg_list[i].first_release_date)
              = Head(Strip(rg_query.release_date)) }

ByExactTitle ==
    { i \in DOMAIN rg_list :
        Lower(Strip(rg_list[i].title)) = Lower(Strip(rg_query.title_variant)) }

ByVolume ==
    { i \in DOMAIN rg_list :
        /\ VolumeOf(rg_query.title_variant) # 0
        /\ VolumeOf(rg_list[i].title) = VolumeOf(rg_query.title_variant) }

\* rg_result holds the candidates at the positions S, each as often as S
\* has it, and nothing else.
Returned_Exactly(S) ==
    /\ Len(rg_result) = Cardinality(S)
    /\ \A c \in RgCandidates :
          Cardinality({ i \in DOMAIN rg_result : rg_result[i] = c })
             = Cardinality({ i \in S : rg_list[i] = c })

\* The positions the first rule that prefers at least one candidate
\* prefers, the last rule ranking them all.
FirstRuleThatYields ==
    IF ByExternalId # {} THEN ByExternalId
    ELSE IF ByYear # {} THEN ByYear
    ELSE IF ByExactTitle # {} THEN ByExactTitle
    ELSE IF ByVolume # {} THEN ByVolume
    ELSE DOMAIN rg_list

NumberAfter(s, words) ==
    LET l == Lower(s)
        hits == { i \in 1..(Len(l) - 2) :
                     l[i] \in words /\ l[i + 1] = 0 /\ l[i + 2] \in Digits }
    IN  IF hits = {} THEN 0
        ELSE l[(CHOOSE h \in hits : \A g \in hits : h <= g) + 2]

NoEarlierRule == ByExternalId = {} /\ ByYear = {} /\ ByExactTitle = {}

normalize_artist_name(name) ==
    SelectSeq(Strip(Lower(name)), LAMBDA c : c # 4)

\* The artist names of the examples: "Ca" stands for "Suede", "Ab Ca" for
\* "AJ Suede".
Suede == <<13, 1>>

AJSuede == <<11, 2, 0, 13, 1>>

CreditPhrases ==
    { <<>>, Suede, AJSuede, <<13, 4, 1>>, <<12>>, <<3, 1, 0, 2>>, <<11, 2>>,
      <<11, 2, 3>> }

QueryArtists == { <<>>, Suede, AJSuede, <<1, 2>> }

\* artist_aliases.get(artist, []): no alias, or the alias "B".
AliasLists == { <<>>, << <<12>> >> }

\* sim >= 70 for a ratio given as a fraction of 100
AtLeast(sim, percent) == 100 * sim.n >= percent * sim.d

\* _is_artist_match(artist_credit_phrase, artist, artist_aliases), aliases
\* being the aliases of `artist'.
is_artist_match(artist_credit_phrase, artist, aliases) ==
    LET credit_norm == normalize_artist_name(artist_credit_phrase)
        artist_norm == normalize_artist_name(artist)
    IN  IF artist_credit_phrase = <<>> \/ artist = <<>> THEN FALSE
        ELSE IF IsIn(artist_norm, credit_norm) THEN TRUE
        ELSE IF \E i \in DOMAIN aliases :
                    IsIn(normalize_artist_name(aliases[i]), credit_norm)
        THEN TRUE
        ELSE AtLeast(token_set_ratio(artist_norm, credit_norm), 70)

is_artist_match_call ==
    /\ fn_name = "_is_artist_match"
    /\ fn_pc = "call"
    /\ fn_result' = is_artist_match(fn_args.artist_credit_phrase,
                                    fn_args.artist, fn_args.aliases)
    /\ fn_pc' = "done"
    /\ UNCHANGED << fn_name, fn_args, fn_requests, scriptVars, retryVars, mbVars,
                    rgVars, webVars >>

InitArtistMatch ==
    /\ ScriptIdle
    /\ RetryIdle
    /\ MbIdle
    /\ RgIdle
    /\ WebIdle
    /\ fn_name = "_is_artist_match"
    /\ fn_args \in [artist_credit_phrase : CreditPhrases, artist : QueryArtists,
                    aliases : AliasLists]
    /\ fn_requests = <<>>
    /\ fn_result = <<>>
    /\ fn_pc = "call"

SpecArtistMatch == InitArtistMatch /\ [][is_artist_match_call]_vars

\* C22: with no alias configured the filter rejects a credit that only
\* shares a word with the artist searched: "AJ Suede" is rejected for the
\* artist "Suede", and "Suede" for the artist "AJ Suede".
C22_SharedWordIsRejected ==
    (fn_pc = "done" /\ fn_args.aliases = <<>>
        /\ \/ fn_args.artist = Suede /\ fn_args.artist_credit_phrase = AJSuede
           \/ fn_args.artist = AJSuede /\ fn_args.artist_credit_phrase = Suede)
      => fn_result = FALSE



(***************************************************************************)
(* MusicBrainzClient._generate_title_variations.  Titles here are made of  *)
(* letters, digits, blanks, the punctuation mark 4 and the ampersand,      *)
(* written 10.                                                             *)
(***************************************************************************)
LowerLetters == {1, 2, 3}

UpperLetters == {11, 12, 13}

Ampersand == 10

IsCased(c) == c \in LowerLetters \cup UpperLetters

\* str.isalnum() or str.isspace() of one character
IsAlnumOrSpace(c) == IsCased(c) \/ c \in Digits \/ c = 0

\* str.upper()
Upper(s) == [i \in DOMAIN s |-> IF s[i] \in LowerLetters THEN s[i] + 10 ELSE s[i]]

\* str.isupper(): some cased character, and no lower-case one
IsUpper(s) ==
    /\ \E i \in DOMAIN s : IsCased(s[i])
    /\ \A i \in DOMAIN s : s[i] \notin LowerLetters

\* str.title(): a letter is upper-cased when it starts a run of letters and
\* lower-cased otherwise.
TitleCase(s) ==
    [i \in DOMAIN s |->
        IF ~IsCased(s[i]) THEN s[i]
        ELSE IF i = 1 \/ ~IsCased(s[i - 1])
        THEN (IF s[i] \in LowerLetters THEN s[i] + 10 ELSE s[i])
        ELSE (IF s[i] \in UpperLetters THEN s[i] - 10 ELSE s[i])]

StartsWith(s, prefix) ==
    Len(s) >= Len(prefix) /\ SubSeq(s, 1, Len(prefix)) = prefix

InList(list, x) == \E i \in DOMAIN list : list[i] = x

\* prefixes_to_strip = ['ep ', 'single ', 'the ', 'a ']; with the letters a
\* to c the first three are written "bc ", "cbb " and "cab ".
prefixes_to_strip == << <<2, 3, 0>>, <<3, 2, 2, 0>>, <<3, 1, 2, 0>>, <<1, 0>> >>

\* The word "and" that replaces an ampersand, written with the letters a to c.
AndWord == <<1, 2, 3>>

RECURSIVE ReplaceAmpersand(_)
\* title.replace('&', 'and')
ReplaceAmpersand(s) ==
    IF s = <<>> THEN <<>>
    ELSE (IF Head(s) = Ampersand THEN AndWord ELSE << Head(s) >>)
            \o ReplaceAmpersand(Tail(s))

\* no_punct: the alphanumerics and blanks of the title, blanks collapsed
RemovePunctuation(title) ==
    CollapseSpaces(Strip(SelectSeq(title, IsAlnumOrSpace)))

AppendAlways(variations, v) == Append(variations, v)

\* if v not in variations: variations.append(v)
AppendNew(variations, v) ==
    IF InList(variations, v) THEN variations ELSE Append(variations, v)

RECURSIVE StripPrefixes(_, _, _)
\* the loop over prefixes_to_strip, from the i-th prefix on
StripPrefixes(variations, title, i) ==
    IF i > Len(prefixes_to_strip) THEN variations
    ELSE LET prefix == prefixes_to_strip[i]
             stripped == Strip(SubSeq(title, Len(prefix) + 1, Len(title)))
         IN  StripPrefixes(
                 IF StartsWith(Strip(Lower(title)), prefix) /\ stripped # <<>>
                 THEN AppendNew(variations, stripped)
                 ELSE variations,
                 title, i + 1)

generate_title_variations(title) ==
    LET v1 == StripPrefixes(<< title >>, title, 1)
        v2 == IF Strip(Lower(title)) = title
              THEN AppendNew(v1, TitleCase(title)) ELSE v1
        v3 == IF Len(title) <= 6 /\ ~IsUpper(title)
              THEN AppendNew(v2, Upper(title)) ELSE v2
        v4 == AppendNew(v3, ReplaceAmpersand(title))
    IN  IF RemovePunctuation(title) # <<>>
        THEN AppendNew(v4, RemovePunctuation(title)) ELSE v4

TitleChars == {0, 1, 11, 4, Ampersand}

MaxTitleLen == 3

\* Every title of at most MaxTitleLen characters, and some that start with
\* a prefix to strip.
Titles ==
    UNION { [1..n -> TitleChars] : n \in 0..MaxTitleLen }
        \cup { <<2, 3, 0, 1>>, <<12, 13, 0, 1, 4, 2>>, <<3, 1, 2, 0, 1, 0, 2>>,
               <<0, 1, 0, 2>>, <<3, 2, 2, 0, 11, 0, 0, 2, 5>>, <<1, 0, 1, 0, 1>> }

generate_title_variations_call ==
    /\ fn_name = "_generate_title_variations"
    /\ fn_pc = "call"
    /\ fn_result' = generate_title_variations(fn_args.title)
    /\ fn_pc' = "done"
    /\ UNCHANGED << fn_name, fn_args, fn_requests, scriptVars, retryVars,
                    mbVars, rgVars, webVars >>

InitTitleVariations ==
    /\ ScriptIdle
    /\ RetryIdle
    /\ MbIdle
    /\ RgIdle
    /\ WebIdle
    /\ fn_name = "_generate_title_variations"
    /\ fn_args \in [title : Titles]
    /\ fn_requests = <<>>
    /\ fn_result = <<>>
    /\ fn_pc = "call"

SpecTitleVariations ==
    InitTitleVariations /\ [][generate_title_variations_call]_vars

\* C27: for every title the list of variations starts with the title as it
\* was given and holds no variation twice.
C27_OriginalFirstNoDuplicates ==
    fn_pc = "done" =>
        /\ Len(fn_result) >= 1
        /\ fn_result[1] = fn_args.title
        /\ \A i, j \in DOMAIN fn_result : fn_result[i] = fn_result[j] => i = j

\* The title "a &" yields "a &", "&" (prefix removed), "A &" (title case),
\* "a abc" (ampersand replaced) and "a" (punctuation removed); its upper
\* case is "A &" again and is not added twice.
C27_Witness ==
    /\ fn_pc = "done"
    /\ fn_args.title = <<1, 0, Ampersand>>
    /\ fn_result = << <<1, 0, Ampersand>>, << Ampersand >>, <<11, 0, Ampersand>>,
                      <<1, 0, 1, 2, 3>>, <<1>> >>



(***************************************************************************)
(* MusicBrainzClient.search_release_groups as a whole: the cascade of      *)
(* queries over the title variations, then the search by title only.  One  *)
(* step is one request of the loop it is in.                               *)
(***************************************************************************)
\* A release group credited to the artist searched, and one credited to
\* another artist.
MineRg ==
    [title |-> <<11, 2>>, score |-> 90, urls |-> <<0, 2>>,
     first_release_date |-> <<>>, artist_credit_phrase |-> Suede]

OtherRg ==
    [title |-> <<11, 2>>, score |-> 50, urls |-> <<0, 2>>,
     first_release_date |-> <<>>, artist_credit_phrase |-> <<12>>]

\* What session.get does with one request: it raises, or answers with a
\* status and, under 200, the release groups of the body.  503 stands for
\* every status other than 200: _make_request returns None for all of them.
SessionGetOutcomes ==
    [raised : {"Timeout", "ConnectionError"}, status : {0}, release_groups : { <<>> }]
        \cup [raised : {""}, status : {503}, release_groups : { <<>> }]
        \cup [raised : {""}, status : {200},
              release_groups : { <<>>, << OtherRg >>, << MineRg >>,
                                 << OtherRg, MineRg >> }]

make_request_uncaught(o) ==
    [raises |-> o.raised, none |-> o.status # 200,
     release_groups |-> o.release_groups]

\* _make_request: the body under 200, None for any other status and for a
\* Timeout or another RequestException of session.get, which it catches.
make_request_returns(o) ==
    [raises |-> "", none |-> o.raised # "" \/ o.status # 200,
     release_groups |-> o.release_groups]

\* _build_release_group_queries for an artist name without brackets, "!"
\* or "$": the quoted artist, then the unquoted one.
build_release_group_queries(artist, releasegroup) ==
    << [kind |-> "artist_quoted", title |-> releasegroup],
       [kind |-> "artist_unquoted", title |-> releasegroup] >>

\* queries of one title variation
QueriesOf(call, title_variant) ==
    IF call.artist_mbid # 0
    THEN << [kind |-> "arid_quoted", title |-> title_variant],
            [kind |-> "arid_unquoted", title |-> title_variant] >>
    ELSE build_release_group_queries(call.artist, title_variant)

RECURSIVE CascadeFrom(_, _, _)
\* the queries of the cascade from the i-th title variation on, in order
CascadeFrom(call, title_variations, i) ==
    IF i > Len(title_variations) THEN <<>>
    ELSE QueriesOf(call, title_variations[i])
            \o CascadeFrom(call, title_variations, i + 1)

CascadePlan(call) ==
    CascadeFrom(call, generate_title_variations(call.releasegroup), 1)

\* the queries of the final loop, one `releasegroup:"<variation>"' each
FallbackPlan(call) ==
    LET title_variations == generate_title_variations(call.releasegroup)
    IN  [i \in DOMAIN title_variations |->
            [kind |-> "title_only", title |-> title_variations[i]]]

RequestPlan(call) == CascadePlan(call) \o FallbackPlan(call)

\* every candidate received, whatever its artist credit
KeepEveryArtist(release_groups, artist) == release_groups

\* the candidates that pass _is_artist_match, in the order received
FilterByArtist(release_groups, artist) ==
    SelectSeq(release_groups,
              LAMBDA rg : is_artist_match(rg.artist_credit_phrase, artist, <<>>))

found_never(kept) == FALSE

\* `if rg_list:'
found(kept) == kept # <<>>

\* One turn of the loop the call is in: the request, the filter, and the
\* return when candidates are left or no query remains.
search_request ==
    /\ fn_name = "search_release_groups"
    /\ fn_pc = "running"
    /\ \E o \in SessionGetOutcomes :
        LET k == Len(fn_requests) + 1
            query == RequestPlan(fn_args)[k]
            root == make_request_returns(o)
            kept == IF root.none THEN <<>>
                       ELSE FilterByArtist(root.release_groups, fn_args.artist)
            entry == [query |-> query, raised |-> o.raised, status |-> o.status,
                      raw |-> Len(o.release_groups), rg_list |-> kept]
        IN  /\ fn_requests' = Append(fn_requests, entry)
            /\ IF root.raises # ""
               THEN /\ fn_result' = [raised |-> root.raises,
                                     release_group_list |-> <<>>]
                    /\ fn_pc' = "done"
               ELSE IF found(kept)
               THEN /\ fn_result' =
                        [raised |-> "",
                         release_group_list |->
                            IF query.kind = "title_only" THEN kept
                            ELSE select_release_groups(kept,
                                    fn_args.spotify_album_id,
                                    fn_args.release_date, query.title)]
                    /\ fn_pc' = "done"
               ELSE IF k = Len(RequestPlan(fn_args))
               THEN /\ fn_result' = [raised |-> "", release_group_list |-> <<>>]
                    /\ fn_pc' = "done"
               ELSE UNCHANGED << fn_result, fn_pc >>
    /\ UNCHANGED << fn_name, fn_args, scriptVars, retryVars, mbVars, rgVars, webVars >>

\* A title with one variation only, and one with two ("Ab", then "AB").
SearchedTitles == { <<11, 2, 0, 13, 1, 0, 12>>, <<11, 2>> }

InitSearch ==
    /\ ScriptIdle
    /\ RetryIdle
    /\ MbIdle
    /\ RgIdle
    /\ WebIdle
    /\ fn_name = "search_release_groups"
    /\ fn_args \in [artist : {Suede}, releasegroup : SearchedTitles,
                    artist_mbid : {0, 1}, spotify_album_id : {0},
                    release_date : { <<>> }]
    /\ fn_requests = <<>>
    /\ fn_result = <<>>
    /\ fn_pc = "running"

SpecSearch == InitSearch /\ [][search_request]_vars

TitleOnly(i) == fn_requests[i].query.kind = "title_only"

\* C23 as stated: a call issues the title-only query at most once.
C23_TitleOnlyAtMostOnce ==
    Cardinality({ i \in DOMAIN fn_requests : TitleOnly(i) }) <= 1

\* C23: a title-only query is issued only after every query of the cascade,
\* for every title variation, was issued and left no filtered candidate; it
\* is issued at most once per title variation; and when the last of them
\* leaves no filtered candidate either the result is empty.
C23_TitleOnlyAfterWholeCascade ==
    /\ \A i \in DOMAIN fn_requests : TitleOnly(i) =>
        /\ i > Len(CascadePlan(fn_args))
        /\ \A j \in 1..(i - 1) : fn_requests[j].rg_list = <<>>
        /\ \A j \in 1..Len(CascadePlan(fn_args)) :
                fn_requests[j].query = CascadePlan(fn_args)[j]
        /\ \A j \in DOMAIN fn_requests :
                (TitleOnly(j) /\ fn_requests[j].query.title = fn_requests[i].query.title)
                    => j = i
    /\ (fn_pc = "done" /\ TitleOnly(Len(fn_requests))
            /\ fn_requests[Len(fn_requests)].rg_list = <<>>)
        => fn_result.release_group_list = <<>>

\* The searched title "Ab": the four queries of the cascade and the
\* title-only query for "Ab" leave nothing, the title-only query for "AB"
\* finds a release group of the artist.
C23_Witness ==
    /\ fn_pc = "done"
    /\ fn_args.releasegroup = <<11, 2>>
    /\ Len(fn_requests) = 6
    /\ TitleOnly(5) /\ TitleOnly(6)
    /\ fn_requests[6].query.title = <<11, 12>>
    /\ fn_requests[3].raw = 1 /\ fn_requests[3].rg_list = <<>>
    /\ fn_result.release_group_list = << MineRg >>

TransportFailed(i) == fn_requests[i].raised # ""

\* C24: a request of the cascade that fails in transport counts as one
\* without results: the call raises nothing, goes on with the next query
\* of the same variation and then with the next variation, and returns the
\* empty list when every request has failed.
C24_TransportFailureIsNoResult ==
    /\ \A i \in DOMAIN fn_requests :
        /\ fn_requests[i].query = RequestPlan(fn_args)[i]
        /\ TransportFailed(i) => fn_requests[i].rg_list = <<>>
    /\ (fn_pc = "done" /\ TransportFailed(Len(fn_requests)))
        => Len(fn_requests) = Len(RequestPlan(fn_args))
    /\ fn_pc = "done" => fn_result.raised = ""
    /\ (fn_pc = "done" /\ \A i \in DOMAIN fn_requests : TransportFailed(i))
        => fn_result.release_group_list = <<>>

\* Both queries of the first variation time out or lose the connection,
\* the first query of the second variation then finds the release group.
C24_Witness ==
    /\ fn_pc = "done"
    /\ fn_args.releasegroup = <<11, 2>>
    /\ Len(fn_requests) = 3
    /\ fn_requests[1].raised = "Timeout"
    /\ fn_requests[2].raised = "ConnectionError"
    /\ fn_requests[3].query = [kind |-> "artist_quoted", title |-> <<11, 12>>]
    /\ fn_result = [raised |-> "", release_group_list |-> << MineRg >>]

\* Every request of a call fails in transport and the call returns the
\* empty list.
C24_WitnessAllFail ==
    /\ fn_pc = "done"
    /\ Len(fn_requests) = 6
    /\ \A i \in DOMAIN fn_requests : TransportFailed(i)
    /\ fn_result = [raised |-> "", release_group_list |-> <<>>]



(***************************************************************************)
(* MusicBrainzClient.search_artists.  The names searched carry no          *)
(* brackets, so search_artist is the artist as given.                      *)
(***************************************************************************)
\* fuzz.ratio(a, b) as a fraction of 100
fuzz_ratio(a, b) ==
    IF a = <<>> /\ b = <<>> THEN [n |-> 1, d |-> 1]
    ELSE [n |-> 2 * LCS(a, b), d |-> Len(a) + Len(b)]

\* int(similarity)
IntOf(sim) == (100 * sim.n) \div sim.d

\* Artist names the catalog answers with: for the search term "ca" their
\* similarities are 100, 80, 66.7, 57.1 and 0.
ArtistNames == { Suede, <<13, 1, 2>>, <<13, 1, 2, 2>>, <<13, 1, 2, 2, 2>>, <<12>> }

\* The artists of a response; the id of an artist is given by its name.
RawArtists == [name : ArtistNames, score : {50, 90}]

MaxArtists == 2

ArtistGetOutcomes ==
    [raised : {"Timeout", "ConnectionError"}, status : {0}, artists : { <<>> }]
        \cup [raised : {""}, status : {503}, artists : { <<>> }]
        \cup [raised : {""}, status : {200},
              artists : UNION { [1..n -> RawArtists] : n \in 0..MaxArtists }]

\* _extract_artists_from_root
extract_artists_from_root(artists, search_term) ==
    [i \in DOMAIN artists |->
        [id |-> artists[i].name, name |-> artists[i].name,
         score |-> artists[i].score,
         similarity |-> fuzz_ratio(search_term, Lower(artists[i].name))]]

RECURSIVE Collect(_, _)
\* the loop that merges the candidates into `collected' by id
Collect(artists, collected) ==
    IF artists = <<>> THEN collected
    ELSE LET a == Head(artists)
             known == { i \in DOMAIN collected : collected[i].id = a.id }
         IN  Collect(Tail(artists),
                IF known # {}
                THEN [i \in DOMAIN collected |->
                        IF i \in known
                        THEN [collected[i] EXCEPT
                                !.similarity = FracMax(a.similarity, @),
                                !.score = Max(@, a.score),
                                !.is_quoted = TRUE]
                        ELSE collected[i]]
                ELSE Append(collected,
                        [id |-> a.id, name |-> a.name, score |-> a.score,
                         similarity |-> a.similarity, is_quoted |-> TRUE]))

MIN_SIMILARITY == 70

RELAXED_SIM == 60

filter_relaxed(artist_list) ==
    SelectSeq(artist_list, LAMBDA a : AtLeast(a.similarity, RELAXED_SIM))

\* filtered_list: the candidates of at least MIN_SIMILARITY, and those of
\* at least RELAXED_SIM when there is none.
filter_by_similarity(artist_list) ==
    LET strict == SelectSeq(artist_list,
                            LAMBDA a : AtLeast(a.similarity, MIN_SIMILARITY))
    IN  IF strict = <<>> /\ artist_list # <<>>
        THEN SelectSeq(artist_list, LAMBDA a : AtLeast(a.similarity, RELAXED_SIM))
        ELSE strict

\* prefix_candidates = {'dj', 'the', 'mc'}; "the" is written "cab", the
\* other two cannot be written with the letters a to c.
prefix_candidates == { <<3, 1, 2>> }

\* _sort_key
sort_key(x, search_artist) ==
    LET search_tokens == Tokens(Lower(search_artist))
        has_prefix == /\ search_tokens # <<>>
                      /\ search_tokens[1] \in prefix_candidates
                      /\ StartsWith(normalize_artist_name(x.name), search_tokens[1])
    IN  << (IF x.is_quoted THEN 2000 ELSE 0) + (IF has_prefix THEN 1000 ELSE 0)
                + IntOf(x.similarity),
           x.score >>

KeyGeq(k, l) == k[1] > l[1] \/ (k[1] = l[1] /\ k[2] >= l[2])

RECURSIVE InsertByKey(_, _, _)
InsertByKey(x, sorted, search_artist) ==
    IF sorted = <<>> THEN <<x>>
    ELSE IF KeyGeq(sort_key(Head(sorted), search_artist), sort_key(x, search_artist))
    THEN <<Head(sorted)>> \o InsertByKey(x, Tail(sorted), search_artist)
    ELSE <<x>> \o sorted

RECURSIVE SortByKey(_, _)
\* filtered_list.sort(key=_sort_key, reverse=True)
SortByKey(list, search_artist) ==
    IF list = <<>> THEN <<>>
    ELSE InsertByKey(list[Len(list)],
                     SortByKey(SubSeq(list, 1, Len(list) - 1), search_artist),
                     search_artist)

\* del a['similarity']
WithoutSimilarity(list) ==
    [i \in DOMAIN list |->
        [id |-> list[i].id, name |-> list[i].name, score |-> list[i].score,
         is_quoted |-> list[i].is_quoted]]

QuotedQuery(search_artist) == [kind |-> "artist_quoted", artist |-> search_artist]

\* search_artists from its first line to its return.  The second quoted
\* request is made when nothing collected is quoted and the first request
\* failed.
search_artists ==
    /\ fn_name = "search_artists"
    /\ fn_pc = "call"
    /\ \E o \in ArtistGetOutcomes :
        LET root == make_request_returns([raised |-> o.raised, status |-> o.status,
                                          release_groups |-> o.artists])
            quoted_failed == root.none
            search_term == Lower(fn_args.artist)
            artists == IF root.none THEN <<>>
                       ELSE extract_artists_from_root(o.artists, search_term)
            collected == Collect(artists, <<>>)
            has_quoted == \E i \in DOMAIN collected : collected[i].is_quoted
            first == [query |-> QuotedQuery(fn_args.artist), raised |-> o.raised,
                      status |-> o.status, artists |-> artists]
        IN  IF collected = <<>>
            THEN /\ fn_requests' = << first >>
                 /\ fn_result' = [artist_list |-> <<>>]
            ELSE IF ~has_quoted /\ quoted_failed
            THEN \E o2 \in ArtistGetOutcomes :
                    LET root2 == make_request_returns(
                                    [raised |-> o2.raised, status |-> o2.status,
                                     release_groups |-> o2.artists])
                        again == IF root2.none THEN <<>>
                                 ELSE extract_artists_from_root(o2.artists, search_term)
                    IN  /\ fn_requests' =
                            << first,
                               [query |-> QuotedQuery(fn_args.artist),
                                raised |-> o2.raised, status |-> o2.status,
                                artists |-> again] >>
                        /\ fn_result' =
                            [artist_list |-> WithoutSimilarity(SortByKey(
                                filter_by_similarity(Collect(again, collected)),
                                fn_args.artist))]
            ELSE /\ fn_requests' = << first >>
                 /\ fn_result' =
                        [artist_list |-> WithoutSimilarity(SortByKey(
                            filter_by_similarity(collected), fn_args.artist))]
    /\ fn_pc' = "done"
    /\ UNCHANGED << fn_name, fn_args, scriptVars, retryVars, mbVars, rgVars, webVars >>

InitArtists ==
    /\ ScriptIdle
    /\ RetryIdle
    /\ MbIdle
    /\ RgIdle
    /\ WebIdle
    /\ fn_name = "search_artists"
    /\ fn_args \in [artist : {Suede, <<3, 1, 2, 0, 13, 1>>}]
    /\ fn_requests = <<>>
    /\ fn_result = <<>>
    /\ fn_pc = "call"

SpecArtists == InitArtists /\ [][search_artists]_vars

\* C25: the quoted query comes first, and when it fails in transport or
\* brings no candidate one unquoted query is issued before the call returns.
C25_UnquotedFallbackIssued ==
    (fn_pc = "done"
        /\ (fn_requests[1].raised # "" \/ fn_requests[1].artists = <<>>))
      => \E i \in DOMAIN fn_requests : fn_requests[i].query.kind = "artist_unquoted"


\* The similarity search_artists computed for a returned candidate.
SimilarityOf(candidate) ==
    fuzz_ratio(Lower(fn_args.artist), Lower(candidate.name))

\* Some candidate received reaches MIN_SIMILARITY.
SomeRawReaches(percent) ==
    \E r \in DOMAIN fn_requests : \E j \in DOMAIN fn_requests[r].artists :
        AtLeast(fn_requests[r].artists[j].similarity, percent)

\* C26: every candidate returned has a similarity of at least 60, and of at
\* least 70 when some candidate received reaches 70; nothing below 60 is
\* ever returned.
C26_SimilarityThresholds ==
    fn_pc = "done" =>
        \A i \in DOMAIN fn_result.artist_list :
            /\ AtLeast(SimilarityOf(fn_result.artist_list[i]), 60)
            /\ SomeRawReaches(70) =>
                    AtLeast(SimilarityOf(fn_result.artist_list[i]), 70)

\* The search for "Ca" receives "Cabb" (66.7) and "Cabbb" (57.1): none
\* reaches 70, and "Cabb" alone is returned.
C26_Witness ==
    /\ fn_pc = "done"
    /\ fn_args.artist = Suede
    /\ Len(fn_requests[1].artists) = 2
    /\ fn_requests[1].artists[1].name = <<13, 1, 2, 2>>
    /\ fn_requests[1].artists[2].name = <<13, 1, 2, 2, 2>>
    /\ Len(fn_result.artist_list) = 1
    /\ fn_result.artist_list[1].name = <<13, 1, 2, 2>>

\* The search for "Ca" receives "Cabb" (66.7) and "Cab" (80): "Cab" alone
\* is returned.
C26_WitnessStrict ==
    /\ fn_pc = "done"
    /\ fn_args.artist = Suede
    /\ Len(fn_requests[1].artists) = 2
    /\ fn_requests[1].artists[1].name = <<13, 1, 2, 2>>
    /\ fn_requests[1].artists[2].name = <<13, 1, 2>>
    /\ Len(fn_result.artist_list) = 1
    /\ fn_result.artist_list[1].name = <<13, 1, 2>>



(***************************************************************************)
(* webui/job_store.py: one JSON file per job.  A job is a record; a key    *)
(* the file does not hold is written 0 (input_path) and a time that was    *)
(* never set is 0, real times being positive.                              *)
(***************************************************************************)
JobIds == {1, 2}

JobStatuses == {"queued", "running", "completed", "failed"}

BlankJob ==
    [status |-> "", total |-> 0, processed |-> 0, input_path |-> 0,
     out_name |-> 0, created_at |-> 0, updated_at |-> 0]

\* create_job(task_id, data) at time t
create_job(store, task_id, data, t) ==
    (task_id :> [data EXCEPT !.created_at = IF @ = 0 THEN t ELSE @,
                             !.updated_at = t]) @@ store

\* update_job(task_id, updates) at time t
update_job(store, task_id, updates, t) ==
    LET cur == IF task_id \in DOMAIN store THEN store[task_id] ELSE BlankJob
    IN  (task_id :> [(updates @@ cur) EXCEPT !.updated_at = t]) @@ store

\* list(list_jobs())
list_jobs(store) == DOMAIN store

\* job.get('updated_at') or job.get('created_at') or 0
LastUpdate(job) ==
    IF job.updated_at # 0 THEN job.updated_at ELSE job.created_at

is_removable_whatever_status(job, t, max_age_seconds, status_filter) ==
    t - LastUpdate(job) > max_age_seconds

\* the two tests of cleanup_jobs that lead to remove_job
is_removable(job, t, max_age_seconds, status_filter) ==
    /\ job.status \in status_filter
    /\ t - LastUpdate(job) > max_age_seconds

\* cleanup_jobs(max_age_seconds, status_filter) at time t
cleanup_jobs(store, t, max_age_seconds, status_filter) ==
    LET kept == { jid \in list_jobs(store) :
                    ~is_removable(store[jid], t, max_age_seconds, status_filter) }
    IN  [jid \in kept |-> store[jid]]

\* max_age_seconds = 7 * 24 * 3600, one unit of time
DEFAULT_MAX_AGE == 1

DEFAULT_STATUS_FILTER == {"completed"}

MaxNow == 4

\* A call of cleanup_jobs on a store of two jobs.
cleanup_jobs_call ==
    /\ fn_name = "cleanup_jobs"
    /\ fn_pc = "call"
    /\ jobs' = cleanup_jobs(jobs, now, fn_args.max_age_seconds,
                            fn_args.status_filter)
    /\ fn_pc' = "done"
    /\ UNCHANGED << fn_name, fn_args, fn_requests, fn_result, web_up,
                    resume_done, tasks, threads, processed_files, stops, now,
                    scriptVars, retryVars, mbVars, rgVars >>

InitCleanup ==
    /\ ScriptIdle
    /\ RetryIdle
    /\ MbIdle
    /\ RgIdle
    /\ fn_name = "cleanup_jobs"
    /\ fn_args \in [max_age_seconds : {DEFAULT_MAX_AGE, 2},
                    status_filter : {DEFAULT_STATUS_FILTER,
                                     {"completed", "failed"}}]
    /\ fn_requests = <<>>
    /\ fn_result = <<>>
    /\ fn_pc = "call"
    /\ web_up = TRUE
    /\ resume_done = TRUE
    /\ tasks = <<>>
    /\ threads = <<>>
    /\ processed_files = <<>>
    /\ stops = 0
    /\ now = MaxNow
    /\ jobs \in [JobIds -> [status : JobStatuses, total : {1}, processed : {1},
                            input_path : {0}, out_name : {1}, created_at : {1},
                            updated_at : 1..MaxNow]]

SpecCleanup == InitCleanup /\ [][cleanup_jobs_call]_vars

\* C29: cleanup_jobs removes a job only if its status is in the status
\* filter and its last update is older than max_age_seconds; with the
\* default arguments no queued, running or failed job and no job updated
\* within the last seven days is removed.
C29_RemovesOnlyOldJobsOfFilteredStatus ==
    [][\A jid \in DOMAIN jobs : jid \notin DOMAIN jobs' =>
            /\ jobs[jid].status \in fn_args.status_filter
            /\ now - jobs[jid].updated_at > fn_args.max_age_seconds
            /\ (fn_args.max_age_seconds = DEFAULT_MAX_AGE
                    /\ fn_args.status_filter = DEFAULT_STATUS_FILTER)
                => /\ jobs[jid].status \notin {"queued", "running", "failed"}
                   /\ now - jobs[jid].updated_at > DEFAULT_MAX_AGE]_vars

\* The default cleanup has removed job 1 and kept job 2, completed as well
\* but updated one unit ago.
C29_Witness ==
    /\ fn_name = "cleanup_jobs"
    /\ fn_pc = "done"
    /\ fn_args = [max_age_seconds |-> DEFAULT_MAX_AGE,
                  status_filter |-> DEFAULT_STATUS_FILTER]
    /\ DOMAIN jobs = {2}
    /\ jobs[2].status = "completed"
    /\ jobs[2].updated_at = now - 1



(***************************************************************************)
(* webui/app.py: the enrichment jobs of the web UI.  An input file of      *)
(* webui/uploads is written by the id of the job it was uploaded for, and  *)
(* 0 is the uploads directory itself, which is what                        *)
(* `UPLOAD_DIR / Path(job.get('input_path') or "")' gives for a job        *)
(* without input_path.                                                     *)
(***************************************************************************)
\* entries of every input file
NumEntries == 2

MaxStops == 2

\* The job the store holds at the start was written with its input_path,
\* the others are created by /enrich.
StoredIds == {1}

EnrichIds == JobIds \ StoredIds

Unfinished(store) ==
    { jid \in list_jobs(store) : store[jid].status \in {"queued", "running"} }

\* _resume_jobs_helper: the tasks mirrored from the job files
ResumedTasks(store) == [jid \in Unfinished(store) |-> store[jid]]

\* _resume_jobs_helper: the workers started.  The path
\* UPLOAD_DIR / input_path exists for a job file with an input_path, and
\* is the directory UPLOAD_DIR for one without.
ResumedThreads(store) ==
    [jid \in Unfinished(store) |->
        [pc |-> "start", input_path |-> store[jid].input_path,
         start_index |-> store[jid].processed + 1, i |-> 0,
         enriched |-> {}]]

\* _resume_jobs_on_first_request, as far as the store on disk goes
AfterFirstRequest(store, t) ==
    cleanup_jobs(store, t, DEFAULT_MAX_AGE, DEFAULT_STATUS_FILTER)

\* A request other than /enrich, the first one of the process.
resume_jobs_on_first_request ==
    /\ web_up
    /\ ~resume_done
    /\ resume_done' = TRUE
    /\ tasks' = ResumedTasks(jobs) @@ tasks
    /\ threads' = ResumedThreads(jobs) @@ threads
    /\ jobs' = AfterFirstRequest(jobs, now)
    /\ UNCHANGED << web_up, processed_files, stops, now, scriptVars, retryVars,
                    mbVars, rgVars, callVars >>

\* POST /enrich for an uploaded file: the before_request hook when this is
\* the first request, then the task, its job file and its worker.
enrich(task_id) ==
    /\ web_up
    /\ task_id \notin DOMAIN jobs
    /\ task_id \notin DOMAIN tasks
    /\ LET resumed == ~resume_done
           task == [BlankJob EXCEPT !.status = "queued", !.out_name = task_id]
           store == IF resumed THEN AfterFirstRequest(jobs, now) ELSE jobs
       IN  /\ resume_done' = TRUE
           /\ tasks' = (task_id :> task)
                        @@ (IF resumed THEN ResumedTasks(jobs) ELSE <<>>) @@ tasks
           /\ jobs' = create_job(store, task_id, task, now)
           /\ threads' = (task_id :> [pc |-> "start", input_path |-> task_id,
                                      start_index |-> 1, i |-> 0,
                                      enriched |-> {}])
                        @@ (IF resumed THEN ResumedThreads(jobs) ELSE <<>>)
                        @@ threads
    /\ UNCHANGED << web_up, processed_files, stops, now, scriptVars, retryVars,
                    mbVars, rgVars, callVars >>

WithoutThread(tid) == [t \in DOMAIN threads \ {tid} |-> threads[t]]

\* _run_worker up to its loop: the status, the parse of the input, the
\* total.  Parsing a directory raises, and the job fails.
run_worker_start(tid) ==
    /\ tid \in DOMAIN threads
    /\ threads[tid].pc = "start"
    /\ IF threads[tid].input_path = 0
       THEN /\ tasks' = [tasks EXCEPT ![tid].status = "failed"]
            /\ jobs' = update_job(update_job(jobs, tid, [status |-> "running"], now),
                                  tid, [status |-> "failed"], now)
            /\ threads' = WithoutThread(tid)
       ELSE /\ tasks' = [tasks EXCEPT ![tid].status = "running",
                                      ![tid].total = NumEntries]
            /\ jobs' = update_job(jobs, tid,
                            [status |-> "running", total |-> NumEntries], now)
            /\ threads' = [threads EXCEPT ![tid].pc = "entries",
                                          ![tid].i = threads[tid].start_index]
    /\ UNCHANGED << web_up, resume_done, processed_files, stops, now, scriptVars,
                    retryVars, mbVars, rgVars, callVars >>

\* One entry of the loop, from start_index on, first half: current and
\* processed are set to the entry and persisted.
run_worker_entry(tid) ==
    /\ tid \in DOMAIN threads
    /\ threads[tid].pc = "entries"
    /\ threads[tid].i <= NumEntries
    /\ tasks' = [tasks EXCEPT ![tid].processed = threads[tid].i]
    /\ jobs' = update_job(jobs, tid, [processed |-> threads[tid].i], now)
    /\ threads' = [threads EXCEPT ![tid].pc = "search"]
    /\ UNCHANGED << web_up, resume_done, processed_files, stops, now, scriptVars,
                    retryVars, mbVars, rgVars, callVars >>

\* Second half: the catalog is asked for the artist and the release group
\* of the entry, the ids go into the worker's copy of the entry, and the
\* worker sleeps.
run_worker_search(tid) ==
    /\ tid \in DOMAIN threads
    /\ threads[tid].pc = "search"
    /\ threads' = [threads EXCEPT ![tid].pc = "entries",
                                  ![tid].enriched = @ \cup {threads[tid].i},
                                  ![tid].i = @ + 1]
    /\ UNCHANGED << web_up, resume_done, tasks, jobs, processed_files, stops,
                    now, scriptVars, retryVars, mbVars, rgVars, callVars >>

\* After the loop: the output file is written from the worker's entries,
\* then the status completed.
run_worker_write(tid) ==
    /\ tid \in DOMAIN threads
    /\ threads[tid].pc = "entries"
    /\ threads[tid].i > NumEntries
    /\ processed_files' = (tasks[tid].out_name :> threads[tid].enriched)
                            @@ processed_files
    /\ tasks' = [tasks EXCEPT ![tid].status = "completed"]
    /\ jobs' = update_job(jobs, tid, [status |-> "completed"], now)
    /\ threads' = WithoutThread(tid)
    /\ UNCHANGED << web_up, resume_done, stops, now, scriptVars, retryVars,
                    mbVars, rgVars, callVars >>

\* The process stops: its memory and its daemon threads are gone, the
\* files stay.
stop_process ==
    /\ web_up
    /\ stops < MaxStops
    /\ web_up' = FALSE
    /\ resume_done' = FALSE
    /\ tasks' = <<>>
    /\ threads' = <<>>
    /\ stops' = stops + 1
    /\ UNCHANGED << jobs, processed_files, now, scriptVars, retryVars, mbVars,
                    rgVars, callVars >>

start_process ==
    /\ ~web_up
    /\ web_up' = TRUE
    /\ UNCHANGED << resume_done, tasks, jobs, threads, processed_files, stops,
                    now, scriptVars, retryVars, mbVars, rgVars, callVars >>

SevenDaysPass ==
    /\ now < MaxNow
    /\ now' = now + 1
    /\ UNCHANGED << web_up, resume_done, tasks, jobs, threads, processed_files,
                    stops, scriptVars, retryVars, mbVars, rgVars, callVars >>

InitWeb ==
    /\ ScriptIdle
    /\ RetryIdle
    /\ MbIdle
    /\ RgIdle
    /\ CallIdle
    /\ web_up = TRUE
    /\ resume_done = FALSE
    /\ tasks = <<>>
    /\ threads = <<>>
    /\ processed_files = <<>>
    /\ stops = 0
    /\ now = 1
    /\ \E processed \in 0..NumEntries, status \in {"queued", "running"} :
        jobs = [jid \in StoredIds |->
                    [status |-> status, total |-> NumEntries,
                     processed |-> processed, input_path |-> jid,
                     out_name |-> jid, created_at |-> 1, updated_at |-> 1]]

NextWeb ==
    \/ resume_jobs_on_first_request
    \/ \E task_id \in EnrichIds : enrich(task_id)
    \/ \E tid \in JobIds : run_worker_start(tid)
    \/ \E tid \in JobIds : run_worker_entry(tid)
    \/ \E tid \in JobIds : run_worker_search(tid)
    \/ \E tid \in JobIds : run_worker_write(tid)
    \/ stop_process
    \/ start_process
    \/ SevenDaysPass

SpecWeb == InitWeb /\ [][NextWeb]_vars

\* The stopped process is started again and receives a request, and every
\* worker thread gets to run.
SpecWebFair ==
    /\ SpecWeb
    /\ WF_vars(start_process)
    /\ WF_vars(resume_jobs_on_first_request)
    /\ \A tid \in JobIds :
        WF_vars(run_worker_start(tid) \/ run_worker_entry(tid)
                    \/ run_worker_search(tid) \/ run_worker_write(tid))

PersistedUnfinished(jid) ==
    ~web_up /\ jid \in DOMAIN jobs /\ jobs[jid].status \in {"queued", "running"}

CompletedWithOutput(jid) ==
    /\ jid \in DOMAIN jobs
    /\ jobs[jid].status = "completed"
    /\ jobs[jid].out_name \in DOMAIN processed_files

\* C28: every job that is on disk as queued or running when the process
\* stops, those created through /enrich included, is resumed after the
\* restart against its own input file from entry processed + 1 on, and
\* eventually is completed with its output file written.
C28_PersistedJobsAreCompleted ==
    \A jid \in JobIds : PersistedUnfinished(jid) ~> CompletedWithOutput(jid)

\* The same for the jobs whose file holds an input_path.
C28_JobsWithInputPathAreCompleted ==
    \A jid \in StoredIds : PersistedUnfinished(jid) ~> CompletedWithOutput(jid)

\* A worker started for a job runs against the input file of that job.
C28_ResumedAgainstOwnInput ==
    \A tid \in DOMAIN threads : threads[tid].input_path = tid



\* The item went through handle_race_condition.
OnConflictRetryPath == pc = "persist" /\ Called("get_existing_artists")

\* C30: on the conflict-retry path the item is reported as success only if
\* the repeated monitoring call left the requested release monitored; when
\* that call fails the item is pending_refresh, not success.
C30_ConflictRetrySuccessMeansMonitored ==
    OnConflictRetryPath =>
        /\ ret = SUCCESS => Called("monitored")
        /\ ((Called("monitor_album_by_mbid") \/ Called("monitor_album"))
                /\ ~Called("monitored"))
            => ret = PENDING_REFRESH



\* C31: a 503 answer to the artist-creation request is retried up to the
\* retry bound: when retry_api_call gives up on _add_artist with the 503
\* failure, from which the item gets error_connection, max_retries attempts
\* have been made.
C31_ServiceUnavailableOnCreationIsRetried ==
    (retry_fn = "retry_api_call" /\ retry_pc = "raised" /\ raised.status = 503)
      => Len(attempts) = max_retries



\* C32: an item without an artist MusicBrainz id ends in a permanent-skip
\* status, so a run with --skip-completed never processes an item that an
\* earlier run has ended with the status of the missing-id branch.
C32_MissingArtistIdIsNotProcessedAgain ==
    /\ (pc = "persist" /\ Item.mb_artist_id = 0) => is_skip(ret)
    /\ (pc = "pair" /\ args.skip_completed /\ Item.mb_artist_id = 0)
          => Item.status # ERROR_MISSING_MB_IDS



(***************************************************************************)
(* Monitoring a release by its title: monitor_album of the script and      *)
(* LidarrClient.monitor_album, each reduced to the album it picks from     *)
(* the artist's albums (0 when it picks none).                             *)
(***************************************************************************)
\* The releaseDate values of the four releases (a larger number is a later
\* date): either the plain or the deluxe release of artist 1 is the newer.
ReleaseDates == { <<1, 2, 1, 1>>, <<2, 1, 1, 1>> }

\* any(variant.strip('()[]- ') in album_title.lower() ...): the title
\* holds the word of an edition variant.
has_edition_in_search(album_title) == 9 \in Range(album_title)

\* The loop of LidarrClient.monitor_album over the artist's albums: an
\* album of the same lowered and stripped title goes to the front of
\* matching_albums, one of the same normalized title to its end
\* (len_diff is 0 when the normalized titles are equal).
RECURSIVE matching_albums(_, _, _)
matching_albums(albums, album_title, matching) ==
    IF albums = <<>> THEN matching
    ELSE LET album == Head(albums)
             album_title_lidarr == Strip(Lower(relTitle[album]))
             search_normalized == normalize_album_title_for_matching(album_title)
             lidarr_normalized == normalize_album_title_for_matching(album_title_lidarr)
         IN  matching_albums(Tail(albums), album_title,
                 IF album_title_lidarr = Strip(Lower(album_title))
                 THEN <<album>> \o matching
                 ELSE IF search_normalized = lidarr_normalized
                         /\ search_normalized # <<>>
                 THEN Append(matching, album)
                 ELSE matching)

\* matching_albums.sort(key=releaseDate, reverse=True): a stable sort, the
\* albums of the later date first.
SortNewestFirst(matching, dates) ==
    SelectSeq(matching, LAMBDA x : dates[x] = 2)
        \o SelectSeq(matching, LAMBDA x : dates[x] = 1)

\* The album LidarrClient.monitor_album monitors.
client_monitor_album(a, album_title, albums, dates) ==
    LET matching == matching_albums(ArtistAlbums(a, albums), album_title, <<>>)
        ordered == IF Len(matching) > 1 /\ ~has_edition_in_search(album_title)
                   THEN SortNewestFirst(matching, dates)
                   ELSE matching
    IN  IF ordered = <<>> THEN 0 ELSE ordered[1]

MonitorTitles ==
    { <<11, 2>>, <<1, 2>>, <<11, 2, 0, 9>>, <<2, 0, 13>>, <<13, 0, 2>> }

\* One call of either monitor_album; fn_result is the album it monitors.
monitor_album_call ==
    /\ fn_name \in {"monitor_album", "LidarrClient.monitor_album"}
    /\ fn_pc = "call"
    /\ fn_result' = IF fn_name = "monitor_album"
                    THEN BestTitleMatch(fn_args.artist_id, fn_args.album_title,
                                        fn_args.albums)
                    ELSE client_monitor_album(fn_args.artist_id,
                                              fn_args.album_title,
                                              fn_args.albums, fn_args.dates)
    /\ fn_pc' = "done"
    /\ UNCHANGED << fn_name, fn_args, fn_requests, scriptVars, retryVars,
                    mbVars, rgVars, webVars >>

InitMonitorAlbum ==
    /\ ScriptIdle
    /\ RetryIdle
    /\ MbIdle
    /\ RgIdle
    /\ WebIdle
    /\ fn_name \in {"monitor_album", "LidarrClient.monitor_album"}
    /\ fn_args \in [artist_id : Artists, album_title : MonitorTitles,
                    albums : [Releases -> AlbumState], dates : ReleaseDates]
    /\ fn_requests = <<>>
    /\ fn_result = 0
    /\ fn_pc = "call"

SpecMonitorAlbum == InitMonitorAlbum /\ [][monitor_album_call]_vars

\* The artist's albums whose title is the query title, letter case and
\* surrounding blanks aside.
SameTitle(call) ==
    { x \in Range(ArtistAlbums(call.artist_id, call.albums)) :
         Strip(Lower(relTitle[x])) = Strip(Lower(call.album_title)) }

\* C33: when the artist has an album whose title equals the query title
\* case-insensitively, monitoring by title picks such an album; the
\* release date does not move the choice to an album of another title.
C33_EqualTitleIsPicked ==
    (fn_name \in {"monitor_album", "LidarrClient.monitor_album"}
     /\ fn_pc = "done" /\ SameTitle(fn_args) # {})
      => fn_result \in SameTitle(fn_args)



(***************************************************************************)
(* add_new_artist_to_lidarr with the two lookups of                        *)
(* LidarrClient.artist_lookup told apart.  The metadata source knows two   *)
(* artists of the queried name, with the MusicBrainz ids 1 and 2.          *)
(***************************************************************************)
Namesakes == {1, 2}

\* What one lookup request can come to: an exception (after the retries),
\* an empty list, or a list whose first item is the artist first_item.
LookupOutcome(kind, first_item) == [kind |-> kind, first_item |-> first_item]

\* _lookup_by_mbid: the term names the id, so a non-empty answer is that
\* artist.
LookupByMbidOutcomes(musicbrainz_id) ==
    { LookupOutcome("raised", 0), LookupOutcome("empty", 0),
      LookupOutcome("items", musicbrainz_id) }

\* _lookup_by_name: the term is the name alone, the first item is
\* whichever artist of that name the source ranks first.
LookupByNameOutcomes ==
    { LookupOutcome("raised", 0), LookupOutcome("empty", 0) }
    \cup { LookupOutcome("items", x) : x \in Namesakes }

\* artist_lookup, first request: items[0] of the lookup by id is returned;
\* an exception or an empty answer falls through to the lookup by name.
artist_lookup_by_mbid ==
    /\ fn_name = "add_new_artist_to_lidarr"
    /\ fn_pc = "lookup_by_mbid"
    /\ \E o \in LookupByMbidOutcomes(fn_args.mb_artist_id) :
          /\ fn_requests' = Append(fn_requests,
                                   [request |-> "lookup mbid", outcome |-> o.kind])
          /\ IF o.kind = "items"
             THEN /\ fn_result' = [fn_result EXCEPT !.artist_lookup = o.first_item]
                  /\ fn_pc' = "post"
             ELSE /\ fn_result' = fn_result
                  /\ fn_pc' = "lookup_by_name"
    /\ UNCHANGED << fn_name, fn_args, scriptVars, retryVars, mbVars, rgVars,
                    webVars >>

\* artist_lookup, second request, and the caller's test of its result.
artist_lookup_by_name ==
    /\ fn_name = "add_new_artist_to_lidarr"
    /\ fn_pc = "lookup_by_name"
    /\ \E o \in LookupByNameOutcomes :
          /\ fn_requests' = Append(fn_requests,
                                   [request |-> "lookup name", outcome |-> o.kind])
          /\ IF o.kind = "items"
             THEN /\ fn_result' = [fn_result EXCEPT !.artist_lookup = o.first_item]
                  /\ fn_pc' = "post"
             ELSE /\ fn_result' = [fn_result EXCEPT !.status = SKIP_NO_ARTIST_MATCH]
                  /\ fn_pc' = "done"
    /\ UNCHANGED << fn_name, fn_args, scriptVars, retryVars, mbVars, rgVars,
                    webVars >>

\* retry_api_call(_add_artist): the payload is the looked-up artist; Lidarr
\* creates that artist (201), or refuses it when it is in the library
\* (400 "already been added"), or the request fails.
add_artist_post ==
    /\ fn_name = "add_new_artist_to_lidarr"
    /\ fn_pc = "post"
    /\ LET x == fn_result.artist_lookup
       IN  \/ /\ fn_requests' = Append(fn_requests,
                     [request |-> "POST artist",
                      outcome |-> IF x \in fn_args.library THEN "400" ELSE "201"])
              /\ fn_result' = IF x \in fn_args.library
                              THEN [fn_result EXCEPT !.status = RACE_CONDITION]
                              ELSE [fn_result EXCEPT !.added_artist = x]
           \/ \E f \in AddArtistFailures :
                 /\ fn_requests' = Append(fn_requests,
                        [request |-> "POST artist", outcome |-> f[1]])
                 /\ fn_result' = [fn_result EXCEPT !.status = f[2]]
    /\ fn_pc' = "done"
    /\ UNCHANGED << fn_name, fn_args, scriptVars, retryVars, mbVars, rgVars,
                    webVars >>

InitAddArtist ==
    /\ ScriptIdle
    /\ RetryIdle
    /\ MbIdle
    /\ RgIdle
    /\ WebIdle
    /\ fn_name = "add_new_artist_to_lidarr"
    /\ fn_args \in [artist : {Suede}, mb_artist_id : Namesakes,
                    library : SUBSET Namesakes]
    /\ fn_requests = <<>>
    /\ fn_result = [artist_lookup |-> 0, added_artist |-> 0, status |-> ""]
    /\ fn_pc = "lookup_by_mbid"

NextAddArtist ==
    artist_lookup_by_mbid \/ artist_lookup_by_name \/ add_artist_post

SpecAddArtist == InitAddArtist /\ [][NextAddArtist]_vars

\* C34: the artist add_new_artist_to_lidarr creates for a known
\* MusicBrainz id has that id; an artist the lookup by name found whose id
\* is another one is never posted.
C34_AddedArtistHasSuppliedId ==
    /\ (fn_name = "add_new_artist_to_lidarr" /\ fn_result.added_artist # 0)
          => fn_result.added_artist = fn_args.mb_artist_id
    /\ (fn_name = "add_new_artist_to_lidarr" /\ fn_pc \in {"post", "done"}
        /\ \E i \in DOMAIN fn_requests : fn_requests[i].request = "POST artist")
          => fn_result.artist_lookup = fn_args.mb_artist_id



\* The release item k of the current run is about (0 when no album of its
\* artist matches its title).
TargetedBy(k) ==
    IF items[k].mb_release_id # 0 THEN items[k].mb_release_id
    ELSE BestTitleMatch(items[k].artist, clean_csv_input(items[k].album),
                        libAlbums)

\* The items the loop of the current run has finished with success or
\* already_monitored.
EarlierSuccesses ==
    { k \in DOMAIN items :
         k < cursor /\ items[k].status \in {SUCCESS, ALREADY_MONITORED} }

\* C35: no step the script takes for a later item of a run turns off the
\* monitoring of a release for which an earlier item of the same run ended
\* in success or already_monitored, also when both items name the same
\* artist.
C35_LaterItemKeepsEarlierSuccessMonitored ==
    [][ envSteps' = envSteps =>
          \A k \in EarlierSuccesses :
             LET r == TargetedBy(k)
             IN  (r # 0 /\ libAlbums[r] = "mon") => libAlbums'[r] = "mon"
      ]_vars


\* The second item of a run is about the artist of the first, whose
\* release the first item left monitored with success; the second item has
\* monitored its own release.
C35_Witness ==
    /\ pc = "persist"
    /\ cursor = 2
    /\ 1 \in EarlierSuccesses
    /\ items[1].artist = Item.artist
    /\ TargetedBy(1) # 0
    /\ TargetedBy(1) # Targeted
    /\ libAlbums[TargetedBy(1)] = "mon"
    /\ Called("monitored")
    /\ wrote

\* The second item created another artist and ran both cleanup passes for
\* it while the release of the first item stayed monitored.
C35_WitnessCleanup ==
    /\ pc = "persist"
    /\ cursor = 2
    /\ 1 \in EarlierSuccesses
    /\ TargetedBy(1) # 0
    /\ libAlbums[TargetedBy(1)] = "mon"
    /\ added_artist # 0
    /\ Called("unmonitor_all_except_specific_album")



\* One of the four priority rules gave the answer of the call.
PriorityRuleSelected ==
    \/ ByExternalId # {}
    \/ ByYear # {}
    \/ ByExactTitle # {}
    \/ (VolumeOf(rg_query.title_variant) # 0 /\ ByVolume # {})

\* C36: whenever the external-id, release-year, exact-title or volume rule
\* selects the answer, the candidates returned are in the order of their
\* catalog score, the highest first.
C36_PriorityRuleResultOrderedByScore ==
    (rg_pc = "done" /\ PriorityRuleSelected) =>
        \A i, j \in DOMAIN rg_result :
            i < j => rg_result[i].score >= rg_result[j].score



\* C37: every candidate in the result of a call of search_release_groups,
\* whether a query of the cascade by artist name, a query by the artist's
\* id or a title-only query found it, passes the artist filter for the
\* artist searched.
C37_EveryResultPassesArtistFilter ==
    (fn_name = "search_release_groups" /\ fn_pc = "done") =>
        \A i \in DOMAIN fn_result.release_group_list :
            is_artist_match(fn_result.release_group_list[i].artist_credit_phrase,
                            fn_args.artist, <<>>)

\* The last request of the call answered with a release group of another
\* artist and one of the artist searched, and only the latter is returned.
AnsweredBy(kind) ==
    /\ fn_name = "search_release_groups"
    /\ fn_pc = "done"
    /\ fn_requests[Len(fn_requests)].query.kind = kind
    /\ fn_requests[Len(fn_requests)].raw = 2
    /\ fn_result.release_group_list = << MineRg >>

\* The title-only query answers with both and the other artist's is dropped.
C37_Witness == AnsweredBy("title_only")

\* The same for a query by the artist's id and for one by the artist's name.
C37_WitnessArid == AnsweredBy("arid_unquoted")

C37_WitnessCascade == AnsweredBy("artist_quoted")



\* C38: once a job that was interrupted and resumed is completed, its
\* output file holds the enrichment result of every entry of its input:
\* the entry that was in progress at the interruption and the entries
\* enriched before it included.
C38_ResumedOutputHoldsEveryEntry ==
    \A jid \in JobIds :
        CompletedWithOutput(jid) =>
            processed_files[jobs[jid].out_name] = 1..NumEntries



(***************************************************************************)
(* The before_request hook of webui/app.py under concurrent requests.      *)
(* The server handles each request in a thread of its own; the hook reads  *)
(* _resume_done and writes it in two statements without a lock, so the     *)
(* threads interleave between the two.  fn_requests holds where each       *)
(* request is in the hook, fn_result the workers started so far.           *)
(***************************************************************************)
NumRequests == 2

Requests == 1..NumRequests

\* `if _resume_done: return'
resume_check(r) ==
    /\ fn_name = "_resume_jobs_on_first_request"
    /\ fn_requests[r] = "arrived"
    /\ fn_requests' = [fn_requests EXCEPT
                          ![r] = IF resume_done THEN "skipped" ELSE "checked"]
    /\ UNCHANGED << fn_name, fn_args, fn_result, fn_pc, webVars, scriptVars,
                    retryVars, mbVars, rgVars >>

\* `_resume_done = True'
resume_set(r) ==
    /\ fn_name = "_resume_jobs_on_first_request"
    /\ fn_requests[r] = "checked"
    /\ resume_done' = TRUE
    /\ fn_requests' = [fn_requests EXCEPT ![r] = "resuming"]
    /\ UNCHANGED << fn_name, fn_args, fn_result, fn_pc, web_up, tasks, jobs,
                    threads, processed_files, stops, now, scriptVars,
                    retryVars, mbVars, rgVars >>

RECURSIVE WorkersFor(_, _)
\* one worker thread for every job of the set, started by request r
WorkersFor(S, r) ==
    IF S = {} THEN <<>>
    ELSE LET jid == CHOOSE x \in S : \A y \in S : x <= y
         IN  << [jid |-> jid, request |-> r, alive |-> TRUE] >>
                \o WorkersFor(S \ {jid}, r)

\* _resume_jobs_helper() and job_store.cleanup_jobs()
resume_helper(r) ==
    /\ fn_name = "_resume_jobs_on_first_request"
    /\ fn_requests[r] = "resuming"
    /\ tasks' = ResumedTasks(jobs) @@ tasks
    /\ fn_result' = fn_result \o WorkersFor(Unfinished(jobs), r)
    /\ jobs' = AfterFirstRequest(jobs, now)
    /\ fn_requests' = [fn_requests EXCEPT ![r] = "resumed"]
    /\ UNCHANGED << fn_name, fn_args, fn_pc, web_up, resume_done, threads,
                    processed_files, stops, now, scriptVars, retryVars, mbVars,
                    rgVars >>

\* A worker runs to its end: the job is completed.
resumed_worker_ends(k) ==
    /\ fn_name = "_resume_jobs_on_first_request"
    /\ k \in DOMAIN fn_result
    /\ fn_result[k].alive
    /\ fn_result' = [fn_result EXCEPT ![k].alive = FALSE]
    /\ tasks' = [tasks EXCEPT ![fn_result[k].jid].status = "completed"]
    /\ jobs' = update_job(jobs, fn_result[k].jid, [status |-> "completed"], now)
    /\ UNCHANGED << fn_name, fn_args, fn_requests, fn_pc, web_up, resume_done,
                    threads, processed_files, stops, now, scriptVars, retryVars,
                    mbVars, rgVars >>

InitResume ==
    /\ ScriptIdle
    /\ RetryIdle
    /\ MbIdle
    /\ RgIdle
    /\ web_up = TRUE
    /\ resume_done = FALSE
    /\ tasks = <<>>
    /\ threads = <<>>
    /\ processed_files = <<>>
    /\ stops = 0
    /\ now = 1
    /\ \E st \in [JobIds -> {"queued", "running", "completed"}] :
        jobs = [jid \in JobIds |->
                    [status |-> st[jid], total |-> NumEntries, processed |-> 0,
                     input_path |-> jid, out_name |-> jid, created_at |-> 1,
                     updated_at |-> 1]]
    /\ fn_name = "_resume_jobs_on_first_request"
    /\ fn_args = <<>>
    /\ fn_requests = [r \in Requests |-> "arrived"]
    /\ fn_result = <<>>
    /\ fn_pc = ""

NextResume ==
    \/ \E r \in Requests : resume_check(r)
    \/ \E r \in Requests : resume_set(r)
    \/ \E r \in Requests : resume_helper(r)
    \/ \E k \in 1..(NumRequests * Cardinality(JobIds)) : resumed_worker_ends(k)

SpecResume == InitResume /\ [][NextResume]_vars

\* C39: of the first requests of a process, however they arrive, at most
\* one runs the resume logic, and no job has two workers alive at a time.
C39_ResumeRunsOnceNoJobTwice ==
    fn_name = "_resume_jobs_on_first_request" =>
        /\ Cardinality({ r \in Requests :
                            fn_requests[r] \in {"resuming", "resumed"} }) <= 1
        /\ \A k, l \in DOMAIN fn_result :
              (fn_result[k].jid = fn_result[l].jid
                 /\ fn_result[k].alive /\ fn_result[l].alive) => k = l



(***************************************************************************)
(* Several enrichment jobs at once.  Every _run_worker builds a            *)
(* UniversalParser and, for it, a MusicBrainzClient of its own, so every   *)
(* job has its own last_request_time: fn_result holds it by job,           *)
(* fn_requests the job of each catalog request, request_times the time     *)
(* each request started, over all jobs.                                    *)
(***************************************************************************)
\* MusicBrainzClient(delay=max(delay, 1.0)) of a worker started with
\* max(1.0, mb_delay)
worker_min_delay(delay) == min_delay_of(Max(Max(delay, TicksPerUnit), TicksPerUnit))

\* One catalog request of the worker of job tid: _wait_for_rate_limit of
\* the worker's client has let the time since the client's last request
\* reach min_delay, stamps last_request_time, and the request starts.
worker_request(tid) ==
    /\ fn_name = "_run_worker"
    /\ Len(request_times) < MaxRequests
    /\ clock - fn_result[tid] >= min_delay
    /\ fn_result' = [fn_result EXCEPT ![tid] = clock]
    /\ fn_requests' = Append(fn_requests, tid)
    /\ request_times' = Append(request_times, clock)
    /\ UNCHANGED << fn_name, fn_args, fn_pc, mb_delay, min_delay,
                    last_request_time, clock, scriptVars, retryVars, rgVars,
                    webVars >>

InitWorkers ==
    /\ ScriptIdle
    /\ RetryIdle
    /\ RgIdle
    /\ WebIdle
    /\ mb_delay \in Delays
    /\ min_delay = worker_min_delay(mb_delay)
    /\ last_request_time = 0
    /\ clock \in StartTimes
    /\ request_times = <<>>
    /\ fn_name = "_run_worker"
    /\ fn_args = <<>>
    /\ fn_requests = <<>>
    /\ fn_result = [tid \in JobIds |-> 0]
    /\ fn_pc = ""

NextWorkers == (\E tid \in JobIds : worker_request(tid)) \/ TimePasses

SpecWorkers == InitWorkers /\ [][NextWorkers]_vars

\* C40: with several jobs running, any two catalog requests, of whichever
\* jobs, start at least the minimum interval of one unit apart.
C40_RequestsOfAllJobsSpaced ==
    fn_name = "_run_worker" =>
        \A i \in DOMAIN request_times :
            i > 1 => request_times[i] - request_times[i - 1] >= TicksPerUnit

=============================================================================
